---- MODULE Spec2Model ----
(***************************************************************************)
(* Model of the pure transformations of the GA4 servers:                   *)
(*   - the filter-expression builder of mcp_ga4 (utils.py):                *)
(*     _build_single_filter and _build_filter_expression;                  *)
(*   - the report formatter of mcp_ga (utils.py): format_report_response;  *)
(*   - the plain-text renderers of ga4_tools.py: _format_report_results    *)
(*     and the rendering part of get_ga4_realtime_report;                  *)
(*   - parse_property_id of mcp_ga4 (utils.py);                            *)
(* and of the calls that reach the outside world:                          *)
(*   - list_ga4_properties and the filters of run_ga4_report               *)
(*     (ga4_tools.py);                                                     *)
(*   - the token store of mcp_ga4 (auth.py), the tools and resources that  *)
(*     read it (tools.py, resources.py) and the OAuth callback that writes *)
(*     it (server.py);                                                     *)
(*   - run_report of mcp_ga (tools.py).                                    *)
(* Each has its own variables and its own specification; in a              *)
(* specification the calls of the other functions are not running.         *)
(*                                                                         *)
(* Python values are tagged records ([t |-> "str", s |-> chars], ...).     *)
(* A str that is parsed or printed is a sequence of one-character strings; *)
(* field names and operators, which are only compared and looked up, are   *)
(* plain strings.  A dict is [t |-> "dict", d |-> function from its keys]. *)
(* A call returns [ok |-> TRUE, val |-> v] or raises:                      *)
(* [ok |-> FALSE, exc |-> [kind |-> exception class, args |-> message]].   *)
(***************************************************************************)
EXTENDS Integers, Sequences, FiniteSets, TLC

\* _build_filter_expression
VARIABLES filters, expressions, idx, pc, result
\* format_report_response
VARIABLES response, formatted, fpc, fresult
\* _format_report_results and get_ga4_realtime_report
VARIABLES renderer, api_response, result_lines, report_idx, tpc, text
\* parse_property_id
VARIABLES property_id, ppc, presult
\* list_ga4_properties of ga4_tools.py
VARIABLES filter_id, include_sub_properties, all_properties, props_copy, sub_idx, lpc,
          lresult
\* the token store of mcp_ga4: the file token_<client_id>.json of the client of
\* GOOGLE_CLIENT_ID and that of another client, the MCP thread that runs the
\* tools and resources, and the handlers of GET /oauth2callback and GET / in
\* the main thread
VARIABLES env, token_file, other_file, file_log, stack, gsc, creds, returned, cpc,
          callback_client_id, token_info, page, root_pc, root_creds, root_result
\* run_report of mcp_ga
VARIABLES start_date, end_date, access_token, run_response, calls, rpc, rresult
\* run_ga4_report of ga4_tools.py
VARIABLES dimension_filters, not_dimension_filters, metric_filters, not_metric_filters,
          request_body, gpc, gresult

builder_vars == <<filters, expressions, idx, pc, result>>
formatter_vars == <<response, formatted, fpc, fresult>>
renderer_vars == <<renderer, api_response, result_lines, report_idx, tpc, text>>
property_vars == <<property_id, ppc, presult>>
lister_vars ==
    <<filter_id, include_sub_properties, all_properties, props_copy, sub_idx, lpc,
      lresult>>
store_vars == <<env, token_file, other_file, file_log>>
mcp_vars == <<stack, gsc, creds, returned>>
callback_vars == <<cpc, callback_client_id, token_info, page>>
root_vars == <<root_pc, root_creds, root_result>>
auth_vars == <<store_vars, mcp_vars, callback_vars, root_vars>>
run_report_vars ==
    <<start_date, end_date, access_token, run_response, calls, rpc, rresult>>
ga4_report_vars ==
    <<dimension_filters, not_dimension_filters, metric_filters, not_metric_filters,
      request_body, gpc, gresult>>
pure_vars == <<builder_vars, formatter_vars, renderer_vars, property_vars>>
service_vars == <<lister_vars, auth_vars, run_report_vars, ga4_report_vars>>
vars == <<pure_vars, service_vars>>

(***************************************************************************)
(* Bounds of the model.                                                    *)
(***************************************************************************)
MaxStr == 3
MaxInt == 2
MaxGroup == 2
MaxLen == 3
MaxHeaders == 3
MaxRows == 2
MaxTotals == 2
MaxReports == 2

(***************************************************************************)
(* Python values.                                                          *)
(***************************************************************************)
PyNone == [t |-> "NoneType"]
PyStr(s) == [t |-> "str", s |-> s]
PyInt(n) == [t |-> "int", n |-> n]
PyBool(b) == [t |-> "bool", b |-> b]
PyList(xs) == [t |-> "list", xs |-> xs]
PyDict(d) == [t |-> "dict", d |-> d]
\* A float is (-1)^neg * m / 10^e, with no trailing zero in the fraction.
PyFloat(neg, m, e) == [t |-> "float", neg |-> neg, m |-> m, e |-> e]

Return(v) == [ok |-> TRUE, val |-> v]
Raise(kind, args) == [ok |-> FALSE, exc |-> [kind |-> kind, args |-> args]]
\* the exception of raised, with what the statements before it had built
Partial(val, raised) == [ok |-> FALSE, exc |-> raised.exc, val |-> val]

(***************************************************************************)
(* A function that is not being called.                                    *)
(***************************************************************************)
BuilderIdle ==
    /\ filters = << >> /\ expressions = << >> /\ idx = 0
    /\ pc = "idle" /\ result = PyNone
FormatterIdle ==
    /\ response = << >> /\ formatted = << >>
    /\ fpc = "idle" /\ fresult = PyNone
RendererIdle ==
    /\ renderer = "none" /\ api_response = << >> /\ result_lines = << >>
    /\ report_idx = 0 /\ tpc = "idle" /\ text = PyNone
PropertyIdle ==
    /\ property_id = << >> /\ ppc = "idle" /\ presult = PyNone
ListerIdle ==
    /\ filter_id = PyNone /\ include_sub_properties = FALSE
    /\ all_properties = << >> /\ props_copy = << >> /\ sub_idx = 0
    /\ lpc = "idle" /\ lresult = PyNone
PureIdle == BuilderIdle /\ FormatterIdle /\ RendererIdle /\ PropertyIdle
AuthIdle ==
    /\ env = << >> /\ token_file = PyNone /\ other_file = PyNone /\ file_log = << >>
    /\ stack = << >> /\ gsc = "idle" /\ creds = PyNone /\ returned = << >>
    /\ cpc = "idle" /\ callback_client_id = "" /\ token_info = PyNone /\ page = PyNone
    /\ root_pc = "idle" /\ root_creds = PyNone /\ root_result = PyNone
RunReportIdle ==
    /\ start_date = PyNone /\ end_date = PyNone /\ access_token = PyNone
    /\ run_response = PyNone /\ calls = << >> /\ rpc = "idle" /\ rresult = PyNone
Ga4ReportIdle ==
    /\ dimension_filters = << >> /\ not_dimension_filters = << >>
    /\ metric_filters = << >> /\ not_metric_filters = << >>
    /\ request_body = PyNone /\ gpc = "idle" /\ gresult = PyNone
ServiceIdle == ListerIdle /\ AuthIdle /\ RunReportIdle /\ Ga4ReportIdle

Digits == <<"0", "1", "2", "3", "4", "5", "6", "7", "8", "9">>
IsDigit(c) == \E i \in 1..10 : Digits[i] = c
DigitVal(c) == (CHOOSE i \in 1..10 : Digits[i] = c) - 1
\* the whitespace of the alphabet the values are drawn from
IsSpace(c) == c \in {" "}

RECURSIVE Normalize(_, _, _)
Normalize(neg, m, e) ==
    IF e > 0 /\ m % 10 = 0 THEN Normalize(neg, m \div 10, e - 1)
    ELSE PyFloat(neg, m, e)

RECURSIVE LStrip(_)
LStrip(s) == IF s # << >> /\ IsSpace(Head(s)) THEN LStrip(Tail(s)) ELSE s

RECURSIVE RStrip(_)
RStrip(s) ==
    IF s # << >> /\ IsSpace(s[Len(s)]) THEN RStrip(SubSeq(s, 1, Len(s) - 1)) ELSE s

RECURSIVE DigitsValue(_)
DigitsValue(s) ==
    IF s = << >> THEN 0
    ELSE 10 * DigitsValue(SubSeq(s, 1, Len(s) - 1)) + DigitVal(s[Len(s)])

AllDigits(s) == \A i \in 1..Len(s) : IsDigit(s[i])

\* float(str): surrounding whitespace is stripped, then an optional sign and a
\* decimal literal with at least one digit ("1", "1.", ".5", "1.5").  The
\* ValueError names the str as repr writes it, between quotes.
ParseFloat(s) ==
    LET body == RStrip(LStrip(s))
        signed == body # << >> /\ Head(body) \in {"-", "+"}
        neg == body # << >> /\ Head(body) = "-"
        mag == IF signed THEN Tail(body) ELSE body
        dots == {i \in 1..Len(mag) : mag[i] = "."}
        ip == IF dots = {} THEN mag
              ELSE SubSeq(mag, 1, (CHOOSE i \in dots : TRUE) - 1)
        fp == IF dots = {} THEN << >>
              ELSE SubSeq(mag, (CHOOSE i \in dots : TRUE) + 1, Len(mag))
    IN  IF /\ Cardinality(dots) <= 1
           /\ AllDigits(ip) /\ AllDigits(fp)
           /\ Len(ip) + Len(fp) > 0
        THEN Return(Normalize(neg, DigitsValue(ip \o fp), Len(fp)))
        ELSE Raise("ValueError",
                   <<"could not convert string to float: ", "'">> \o s \o <<"'">>)

RECURSIVE NatStr(_)
NatStr(n) == IF n < 10 THEN <<Digits[n + 1]>> ELSE NatStr(n \div 10) \o <<Digits[(n % 10) + 1]>>

RECURSIVE Pow10(_)
Pow10(e) == IF e = 0 THEN 1 ELSE 10 * Pow10(e - 1)

RECURSIVE ZeroPad(_, _)
ZeroPad(s, w) == IF Len(s) >= w THEN s ELSE ZeroPad(<<"0">> \o s, w)

\* str(value); the only list among the values is the empty one.
Str(v) ==
    CASE v.t = "str" -> v.s
      [] v.t = "int" -> IF v.n < 0 THEN <<"-">> \o NatStr(-v.n) ELSE NatStr(v.n)
      [] v.t = "bool" -> IF v.b THEN <<"T", "r", "u", "e">> ELSE <<"F", "a", "l", "s", "e">>
      [] v.t = "NoneType" -> <<"N", "o", "n", "e">>
      [] v.t = "list" -> <<"[", "]">>
      [] v.t = "float" ->
            (IF v.neg THEN <<"-">> ELSE << >>)
            \o NatStr(v.m \div Pow10(v.e)) \o <<".">>
            \o (IF v.e = 0 THEN <<"0">> ELSE ZeroPad(NatStr(v.m % Pow10(v.e)), v.e))

\* float(value)
Float(v) ==
    CASE v.t = "str" -> ParseFloat(v.s)
      [] v.t = "int" -> Return(PyFloat(v.n < 0, IF v.n < 0 THEN -v.n ELSE v.n, 0))
      [] v.t = "bool" -> Return(PyFloat(FALSE, IF v.b THEN 1 ELSE 0, 0))
      [] v.t = "float" -> Return(v)
      [] OTHER -> Raise("TypeError",
                        <<"float() argument must be a string or a real number, not '",
                          v.t, "'">>)

(***************************************************************************)
(* Ordered dicts of the source: sequences of <<key, value>> in source      *)
(* order.                                                                  *)
(***************************************************************************)
Keys(m) == [i \in 1..Len(m) |-> m[i][1]]
HasKey(m, k) == \E i \in 1..Len(m) : m[i][1] = k
Lookup(m, k) == m[CHOOSE i \in 1..Len(m) : m[i][1] = k][2]

RECURSIVE Join(_, _)
Join(sep, xs) ==
    IF xs = << >> THEN << >>
    ELSE IF Len(xs) = 1 THEN xs
    ELSE <<Head(xs), sep>> \o Join(sep, Tail(xs))

\* Mutant of string_operator_map: starts_with and ends_with exchanged.
string_operator_map_Swapped ==
    << <<"=", "EXACT">>,
       <<"!=", "NOT_EXACT">>,
       <<"contains", "CONTAINS">>,
       <<"starts_with", "ENDS_WITH">>,
       <<"ends_with", "BEGINS_WITH">>,
       <<"regex", "FULL_REGEXP">>,
       <<"partial_regex", "PARTIAL_REGEXP">>,
       <<"EXACT", "EXACT">>,
       <<"NOT_EXACT", "NOT_EXACT">>,
       <<"BEGINS_WITH", "BEGINS_WITH">>,
       <<"ENDS_WITH", "ENDS_WITH">>,
       <<"CONTAINS", "CONTAINS">>,
       <<"FULL_REGEXP", "FULL_REGEXP">>,
       <<"PARTIAL_REGEXP", "PARTIAL_REGEXP">> >>

string_operator_map ==
    << <<"=", "EXACT">>,
       <<"!=", "NOT_EXACT">>,
       <<"contains", "CONTAINS">>,
       <<"starts_with", "BEGINS_WITH">>,
       <<"ends_with", "ENDS_WITH">>,
       <<"regex", "FULL_REGEXP">>,
       <<"partial_regex", "PARTIAL_REGEXP">>,
       <<"EXACT", "EXACT">>,
       <<"NOT_EXACT", "NOT_EXACT">>,
       <<"BEGINS_WITH", "BEGINS_WITH">>,
       <<"ENDS_WITH", "ENDS_WITH">>,
       <<"CONTAINS", "CONTAINS">>,
       <<"FULL_REGEXP", "FULL_REGEXP">>,
       <<"PARTIAL_REGEXP", "PARTIAL_REGEXP">> >>

numeric_operator_map ==
    << <<"=", "EQUAL">>,
       <<"!=", "NOT_EQUAL">>,
       <<">", "GREATER_THAN">>,
       <<">=", "GREATER_THAN_OR_EQUAL">>,
       <<"<", "LESS_THAN">>,
       <<"<=", "LESS_THAN_OR_EQUAL">>,
       <<"EQUAL", "EQUAL">>,
       <<"NOT_EQUAL", "NOT_EQUAL">>,
       <<"GREATER_THAN", "GREATER_THAN">>,
       <<"GREATER_THAN_OR_EQUAL", "GREATER_THAN_OR_EQUAL">>,
       <<"LESS_THAN", "LESS_THAN">>,
       <<"LESS_THAN_OR_EQUAL", "LESS_THAN_OR_EQUAL">> >>

StringMatchTypes ==
    {"EXACT", "NOT_EXACT", "BEGINS_WITH", "ENDS_WITH", "CONTAINS", "FULL_REGEXP",
     "PARTIAL_REGEXP"}

NumericOperations ==
    {"EQUAL", "NOT_EQUAL", "GREATER_THAN", "GREATER_THAN_OR_EQUAL", "LESS_THAN",
     "LESS_THAN_OR_EQUAL"}

(***************************************************************************)
(* The protobuf messages the builder constructs.                           *)
(***************************************************************************)
StringFilter(match_type, value, case_sensitive) ==
    [match_type |-> match_type, value |-> value, case_sensitive |-> case_sensitive]

NumericFilter(operation, value) == [operation |-> operation, value |-> value]

StringLeaf(field_name, string_filter) ==
    [filter |-> [field_name |-> field_name, string_filter |-> string_filter]]

NumericLeaf(field_name, numeric_filter) ==
    [filter |-> [field_name |-> field_name, numeric_filter |-> numeric_filter]]

AndGroup(exprs) == [and_group |-> [expressions |-> exprs]]
OrGroup(exprs) == [or_group |-> [expressions |-> exprs]]

(***************************************************************************)
(* _build_single_filter(condition)                                         *)
(***************************************************************************)
\* condition[key] for the three required keys, in the order the source reads
\* them: the first one that fails decides the exception.
Subscript(condition) ==
    IF condition.t # "dict"
    THEN Raise("TypeError", <<"not subscriptable by str">>)
    ELSE IF "operator" \notin DOMAIN condition.d THEN Raise("KeyError", <<"operator">>)
    ELSE IF "field" \notin DOMAIN condition.d THEN Raise("KeyError", <<"field">>)
    ELSE IF "value" \notin DOMAIN condition.d THEN Raise("KeyError", <<"value">>)
    ELSE Return(condition.d)

\* Mutant of GetCaseSensitive: the default is True.
GetCaseSensitive_DefaultTrue(d) ==
    IF "case_sensitive" \in DOMAIN d THEN d.case_sensitive ELSE TRUE

\* condition.get("case_sensitive", False)
GetCaseSensitive(d) ==
    IF "case_sensitive" \in DOMAIN d THEN d.case_sensitive ELSE FALSE

StringBranch(d) ==
    LET match_type == Lookup(string_operator_map, d.operator)
    IN  IF match_type \notin StringMatchTypes
        THEN Raise("ValueError",
                   <<"Invalid string operator: ", d.operator, ". Valid operators are: ">>
                   \o Join(", ", Keys(string_operator_map)))
        ELSE Return(StringLeaf(d.field,
                               StringFilter(match_type, Str(d.value), GetCaseSensitive(d))))

\* Mutant of NumericBranch: a value float() rejects is passed on as it is.
NumericBranch_Unchecked(d) ==
    LET operation == Lookup(numeric_operator_map, d.operator)
        numeric_value == Float(d.value)
    IN  Return(NumericLeaf(d.field,
                           NumericFilter(operation,
                                         IF numeric_value.ok THEN numeric_value.val
                                         ELSE d.value)))

NumericBranch(d) ==
    LET operation == Lookup(numeric_operator_map, d.operator)
        numeric_value == Float(d.value)
    IN  IF operation \notin NumericOperations
        THEN Raise("ValueError",
                   <<"Invalid numeric operator: ", d.operator, ". Valid operators are: ">>
                   \o Join(", ", Keys(numeric_operator_map)))
        ELSE IF ~numeric_value.ok
        THEN IF numeric_value.exc.kind = "ValueError"
             THEN Raise("ValueError", <<"Invalid numeric value: ">> \o Str(d.value))
             ELSE numeric_value
        ELSE Return(NumericLeaf(d.field, NumericFilter(operation, numeric_value.val)))

\* Mutant of InvalidOperator: the message lists the string operators only.
InvalidOperator_StringOnly(d) ==
    Raise("ValueError",
          <<"Invalid operator: ", d.operator, ". Must be one of: ">>
          \o Join(", ", Keys(string_operator_map)))

InvalidOperator(d) ==
    Raise("ValueError",
          <<"Invalid operator: ", d.operator, ". Must be one of: ">>
          \o Join(", ", Keys(string_operator_map) \o Keys(numeric_operator_map)))

\* Mutant of IsStringOperator: the numeric table is consulted first.
IsStringOperator_NumericFirst(operator) ==
    HasKey(string_operator_map, operator) /\ ~HasKey(numeric_operator_map, operator)

IsStringOperator(operator) == HasKey(string_operator_map, operator)
IsNumericOperator(operator) == HasKey(numeric_operator_map, operator)

Dispatch(got) ==
    IF ~got.ok THEN got
    ELSE IF IsStringOperator(got.val.operator) THEN StringBranch(got.val)
    ELSE IF IsNumericOperator(got.val.operator) THEN NumericBranch(got.val)
    ELSE InvalidOperator(got.val)

build_single_filter(condition) == Dispatch(Subscript(condition))

(***************************************************************************)
(* _build_filter_expression(filters)                                       *)
(***************************************************************************)
\* [_build_single_filter(cond) for cond in conds]: members are built in order
\* and the first exception ends the comprehension.
\* Mutant of Cons: members are collected in reverse order.
Cons_Reversed(first, rest) ==
    IF ~first.ok THEN first
    ELSE IF ~rest.ok THEN rest
    ELSE Return(rest.val \o <<first.val>>)

\* One more member of the comprehension: the first exception wins.
Cons(first, rest) ==
    IF ~first.ok THEN first
    ELSE IF ~rest.ok THEN rest
    ELSE Return(<<first.val>> \o rest.val)

RECURSIVE BuildMembers(_)
BuildMembers(conds) ==
    IF conds = << >> THEN Return(<< >>)
    ELSE Cons(build_single_filter(Head(conds)), BuildMembers(Tail(conds)))

\* The comprehension over f["AND"] / f["OR"]: only a list is iterated here.
BuildGroup(members) ==
    IF members.t # "list" THEN Raise("TypeError", <<"object is not iterable">>)
    ELSE BuildMembers(members.xs)

IsAndElement(f) == f.t = "dict" /\ "AND" \in DOMAIN f.d
IsOrElement(f) == f.t = "dict" /\ "OR" \in DOMAIN f.d

\* FilterExpression(and_group=FilterExpressionList(expressions=[...]))
AndOf(built) == IF built.ok THEN Return(AndGroup(built.val)) ELSE built
\* FilterExpression(or_group=FilterExpressionList(expressions=[...]))
OrOf(built) == IF built.ok THEN Return(OrGroup(built.val)) ELSE built

\* Mutant of BuildElement: the key OR is looked for before the key AND.
BuildElement_OrFirst(f) ==
    IF IsOrElement(f) THEN OrOf(BuildGroup(f.d.OR))
    ELSE IF IsAndElement(f) THEN AndOf(BuildGroup(f.d.AND))
    ELSE build_single_filter(f)

\* The expression one loop iteration appends for f, or the exception it raises.
BuildElement(f) ==
    IF IsAndElement(f) THEN AndOf(BuildGroup(f.d.AND))
    ELSE IF IsOrElement(f) THEN OrOf(BuildGroup(f.d.OR))
    ELSE build_single_filter(f)

\* Mutant of Wrap: a single expression is returned bare.
Wrap_Flatten(exprs) == IF Len(exprs) = 1 THEN exprs[1] ELSE AndGroup(exprs)

Wrap(exprs) == AndGroup(exprs)

(***************************************************************************)
(* Inputs.                                                                 *)
(***************************************************************************)
Alphabet == {"0", "1", "5", ".", "-", " ", "a"}
Strings == UNION {[1..k -> Alphabet] : k \in 0..MaxStr}

Floats == {Normalize(neg, m, 1) : neg \in BOOLEAN, m \in 0..(10 * MaxInt)}

Values ==
    {PyStr(s) : s \in Strings}
    \cup {PyInt(n) : n \in (-MaxInt)..MaxInt}
    \cup Floats
    \cup {PyBool(b) : b \in BOOLEAN}
    \cup {PyNone, PyList(<< >>)}

KnownOperators ==
    {string_operator_map[i][1] : i \in 1..Len(string_operator_map)}
    \cup {numeric_operator_map[i][1] : i \in 1..Len(numeric_operator_map)}
UnknownOperators == {"foo", "==", "exact", ""}
Operators == KnownOperators \cup UnknownOperators

Fields == {"country", "sessions"}

Condition(field, operator, value) ==
    PyDict([field |-> field, operator |-> operator, value |-> value])

\* every operator with every value
FullConditions == {Condition("country", op, v) : op \in Operators, v \in Values}

SampleOperators == {"=", "!=", ">", "contains", "EQUAL", "foo"}
SampleValues == {PyStr(<<"1", "0">>), PyStr(<<"a">>), PyInt(1), PyNone}
ConditionKeys == {"field", "operator", "value", "case_sensitive"}

Restrict(d, ks) == [k \in ks |-> d[k]]

\* conditions with any subset of their keys, either field and either case flag
VariedConditions ==
    {PyDict(Restrict([field |-> fld, operator |-> op, value |-> v, case_sensitive |-> cs], ks)) :
        fld \in Fields, op \in SampleOperators, v \in SampleValues, cs \in BOOLEAN,
        ks \in SUBSET ConditionKeys}

Japan == PyStr(<<"a", "1">>)
Mobile == PyStr(<<"a", "0">>)
GroupMembers ==
    {Condition("country", "=", Japan),
     Condition("deviceCategory", "=", Mobile),
     Condition("sessions", ">", PyStr(<<"1", "0">>)),
     Condition("sessions", ">", PyStr(<<"a">>)),
     Condition("country", "foo", Japan),
     PyDict([field |-> "country", value |-> Japan]),
     PyNone}

MemberLists == UNION {[1..k -> GroupMembers] : k \in 0..MaxGroup}

Groups ==
    {PyDict([AND |-> PyList(ms)]) : ms \in MemberLists}
    \cup {PyDict([OR |-> PyList(ms)]) : ms \in MemberLists}
    \cup {PyDict([AND |-> PyNone]), PyDict([OR |-> PyNone])}

\* dicts that carry a group key next to other keys
MixedGroups ==
    {PyDict([AND |-> PyList(a), OR |-> PyList(b)]) :
        a \in {ms \in MemberLists : Len(ms) <= 1}, b \in {ms \in MemberLists : Len(ms) <= 1}}
    \cup {PyDict([AND |-> PyList(a), field |-> "country", operator |-> "=", value |-> Japan]) :
            a \in {ms \in MemberLists : Len(ms) <= 1}}
    \cup {PyDict([OR |-> PyList(a), field |-> "country", operator |-> "=", value |-> Japan]) :
            a \in {ms \in MemberLists : Len(ms) <= 1}}

NonDicts == {PyNone, PyList(<< >>), PyStr(<<"a">>), PyInt(1)}

Elements == FullConditions \cup VariedConditions \cup Groups \cup MixedGroups \cup NonDicts

SmallElements ==
    {Condition("country", "=", Japan),
     Condition("sessions", ">", PyStr(<<"1", "0">>)),
     PyDict([AND |-> PyList(<<Condition("country", "=", Japan),
                              Condition("sessions", "=", PyStr(<<"1">>))>>)]),
     PyDict([OR |-> PyList(<<Condition("country", "contains", Japan)>>)]),
     Condition("country", "foo", Japan),
     Condition("sessions", "<", PyStr(<<"a">>)),
     PyDict([operator |-> "=", value |-> Japan]),
     PyNone}

Inputs ==
    {<< >>}
    \cup {<<e>> : e \in Elements}
    \cup UNION {[1..k -> SmallElements] : k \in 2..MaxLen}

(***************************************************************************)
(* The call as a state machine: one step per loop iteration.               *)
(***************************************************************************)
Init ==
    /\ filters \in Inputs
    /\ expressions = << >>
    /\ idx = 0
    /\ pc = "loop"
    /\ result = PyNone
    /\ FormatterIdle /\ RendererIdle /\ PropertyIdle /\ ServiceIdle

Iterate(built) ==
    IF built.ok
    THEN /\ expressions' = Append(expressions, built.val)
         /\ idx' = idx + 1
         /\ UNCHANGED <<filters, pc, result>>
         /\ UNCHANGED <<formatter_vars, renderer_vars, property_vars, service_vars>>
    ELSE /\ pc' = "raised"
         /\ result' = built.exc
         /\ UNCHANGED <<filters, expressions, idx>>
         /\ UNCHANGED <<formatter_vars, renderer_vars, property_vars, service_vars>>

\* if isinstance(f, dict) and "AND" in f
IterAnd ==
    /\ pc = "loop" /\ idx < Len(filters)
    /\ IsAndElement(filters[idx + 1])
    /\ Iterate(BuildElement(filters[idx + 1]))

\* elif isinstance(f, dict) and "OR" in f
IterOr ==
    /\ pc = "loop" /\ idx < Len(filters)
    /\ ~IsAndElement(filters[idx + 1]) /\ IsOrElement(filters[idx + 1])
    /\ Iterate(BuildElement(filters[idx + 1]))

\* else
IterSingle ==
    /\ pc = "loop" /\ idx < Len(filters)
    /\ ~IsAndElement(filters[idx + 1]) /\ ~IsOrElement(filters[idx + 1])
    /\ Iterate(BuildElement(filters[idx + 1]))

\* return FilterExpression(and_group=FilterExpressionList(expressions=expressions))
ReturnExpression ==
    /\ pc = "loop" /\ idx = Len(filters)
    /\ pc' = "returned"
    /\ result' = Wrap(expressions)
    /\ UNCHANGED <<filters, expressions, idx>>
    /\ UNCHANGED <<formatter_vars, renderer_vars, property_vars, service_vars>>

Next == IterAnd \/ IterOr \/ IterSingle \/ ReturnExpression

Spec == Init /\ [][Next]_vars

(***************************************************************************)
(* What a state shows of the call.                                         *)
(***************************************************************************)
Terminal == pc \in {"returned", "raised"}
\* filters[i] was compiled and its expression appended
Processed(i) == i <= Len(expressions)
\* the call raised while compiling filters[i]
Failed(i) == pc = "raised" /\ idx = i - 1
Attempted(i) == Processed(i) \/ Failed(i)

RequiredKeys == {"field", "operator", "value"}
IsDict(c) == c.t = "dict"
IsComplete(c) == IsDict(c) /\ RequiredKeys \subseteq DOMAIN c.d
IsLeafElement(f) == ~IsAndElement(f) /\ ~IsOrElement(f)
IsListGroup(f) ==
    \/ IsAndElement(f) /\ f.d.AND.t = "list"
    \/ ~IsAndElement(f) /\ IsOrElement(f) /\ f.d.OR.t = "list"
MembersOf(f) == IF IsAndElement(f) THEN f.d.AND.xs ELSE f.d.OR.xs

IsLeaf(e) == DOMAIN e = {"filter"}
IsStringLeaf(e) == IsLeaf(e) /\ DOMAIN e.filter = {"field_name", "string_filter"}
IsNumericLeaf(e) == IsLeaf(e) /\ DOMAIN e.filter = {"field_name", "numeric_filter"}
IsAndNode(e) == DOMAIN e = {"and_group"} /\ DOMAIN e.and_group = {"expressions"}
IsOrNode(e) == DOMAIN e = {"or_group"} /\ DOMAIN e.or_group = {"expressions"}
GroupExprs(e) ==
    IF IsAndNode(e) THEN e.and_group.expressions
    ELSE IF IsOrNode(e) THEN e.or_group.expressions
    ELSE << >>

Min(a, b) == IF a < b THEN a ELSE b

\* The conditions the call has compiled so far, each with what came of it: the
\* leaf appended for it (ok) or the exception the call ended with.  A member of
\* a group that failed is observed only when it is the group's single member.
TopObservations ==
    {[cond |-> filters[i], ok |-> Processed(i),
      out |-> IF Processed(i) THEN expressions[i] ELSE result] :
        i \in {k \in 1..Len(filters) : Attempted(k) /\ IsLeafElement(filters[k])}}

MemberObservations ==
    UNION {{[cond |-> MembersOf(filters[i])[j], ok |-> TRUE,
             out |-> GroupExprs(expressions[i])[j]] :
                j \in 1..Min(Len(MembersOf(filters[i])), Len(GroupExprs(expressions[i])))} :
        i \in {k \in 1..Len(filters) : Processed(k) /\ IsListGroup(filters[k])}}
    \cup
    {[cond |-> MembersOf(filters[i])[1], ok |-> FALSE, out |-> result] :
        i \in {k \in 1..Len(filters) :
                 Failed(k) /\ IsListGroup(filters[k]) /\ Len(MembersOf(filters[k])) = 1}}

Observations == TopObservations \cup MemberObservations

(***************************************************************************)
(* The operator tables as documented.                                      *)
(***************************************************************************)
NumericOnlySymbols == {">", ">=", "<", "<="}
SharedSymbols == {"=", "!="}
NumericEnumNames ==
    {"EQUAL", "NOT_EQUAL", "GREATER_THAN", "GREATER_THAN_OR_EQUAL", "LESS_THAN",
     "LESS_THAN_OR_EQUAL"}
StringAliases ==
    {"=", "!=", "contains", "starts_with", "ends_with", "regex", "partial_regex"}
StringEnumNames ==
    {"EXACT", "NOT_EXACT", "BEGINS_WITH", "ENDS_WITH", "CONTAINS", "FULL_REGEXP",
     "PARTIAL_REGEXP"}
DocumentedOperators ==
    StringAliases \cup StringEnumNames \cup NumericOnlySymbols \cup NumericEnumNames

DocumentedOperation(op) ==
    CASE op \in {">", "GREATER_THAN"} -> "GREATER_THAN"
      [] op \in {">=", "GREATER_THAN_OR_EQUAL"} -> "GREATER_THAN_OR_EQUAL"
      [] op \in {"<", "LESS_THAN"} -> "LESS_THAN"
      [] op \in {"<=", "LESS_THAN_OR_EQUAL"} -> "LESS_THAN_OR_EQUAL"
      [] op \in {"=", "EQUAL"} -> "EQUAL"
      [] op \in {"!=", "NOT_EQUAL"} -> "NOT_EQUAL"

DocumentedMatchType(op) ==
    CASE op \in {"=", "EXACT"} -> "EXACT"
      [] op \in {"!=", "NOT_EXACT"} -> "NOT_EXACT"
      [] op \in {"contains", "CONTAINS"} -> "CONTAINS"
      [] op \in {"starts_with", "BEGINS_WITH"} -> "BEGINS_WITH"
      [] op \in {"ends_with", "ENDS_WITH"} -> "ENDS_WITH"
      [] op \in {"regex", "FULL_REGEXP"} -> "FULL_REGEXP"
      [] op \in {"partial_regex", "PARTIAL_REGEXP"} -> "PARTIAL_REGEXP"

IsNumericString(v) == v.t = "str" /\ ParseFloat(v.s).ok
IsNonNumericString(v) == v.t = "str" /\ ~ParseFloat(v.s).ok

(***************************************************************************)
(* Claims.                                                                 *)
(***************************************************************************)
OperatorOf(o) == o.cond.d.operator
ValueOf(o) == o.cond.d.value
IsStringCase(o) ==
    IsComplete(o.cond) /\ OperatorOf(o) \in StringAliases \cup StringEnumNames
IsNumericCase(o) ==
    IsComplete(o.cond) /\ OperatorOf(o) \in NumericOnlySymbols \cup NumericEnumNames
AllCompile == \A i \in 1..Len(filters) : BuildElement(filters[i]).ok

\* C1: when every element of the list compiles, the call returns one and_group
\* node whose expressions are the compiled elements, one per element in input
\* order, also for a list of one element and for the empty list.
C1_TopLevelAndGroup ==
    (Terminal /\ AllCompile) =>
        /\ pc = "returned"
        /\ IsAndNode(result)
        /\ Len(result.and_group.expressions) = Len(filters)
        /\ \A i \in 1..Len(filters) :
              result.and_group.expressions[i] = BuildElement(filters[i]).val

C1_Witness ==
    /\ pc = "returned" /\ Len(filters) = 1 /\ IsLeafElement(filters[1])
    /\ IsAndNode(result)
    /\ Len(result.and_group.expressions) = 1
    /\ IsLeaf(result.and_group.expressions[1])

\* C2: every condition with operator >, >=, <, <=, = or != and a numeric string
\* as value compiles to a numeric_filter leaf with the documented operation and
\* the value float(value).
C2_NumericOperatorsEmitNumericFilter ==
    \A o \in Observations :
        (/\ IsComplete(o.cond)
         /\ OperatorOf(o) \in NumericOnlySymbols \cup SharedSymbols
         /\ IsNumericString(ValueOf(o)))
        => /\ o.ok
           /\ o.out = NumericLeaf(o.cond.d.field,
                                  NumericFilter(DocumentedOperation(OperatorOf(o)),
                                                ParseFloat(ValueOf(o).s).val))

\* C3: a condition compiles to a numeric filter only when its operator is a
\* numeric-only symbol or a numeric enum name, and such an operator never gives
\* a string filter; every other known operator gives a string filter whatever
\* the value is, = giving EXACT and != giving NOT_EXACT.
C3_ResolutionOrder ==
    \A o \in Observations :
        IsComplete(o.cond) =>
            /\ (o.ok /\ IsNumericLeaf(o.out)) => IsNumericCase(o)
            /\ (o.ok /\ IsNumericCase(o)) => IsNumericLeaf(o.out)
            /\ IsStringCase(o) => (o.ok /\ IsStringLeaf(o.out))
            /\ OperatorOf(o) = "="
                 => (o.ok /\ IsStringLeaf(o.out)
                     /\ o.out.filter.string_filter.match_type = "EXACT")
            /\ OperatorOf(o) = "!="
                 => (o.ok /\ IsStringLeaf(o.out)
                     /\ o.out.filter.string_filter.match_type = "NOT_EXACT")

C3_Witness ==
    \E o \in Observations :
        /\ IsComplete(o.cond) /\ OperatorOf(o) = "=" /\ IsNumericString(ValueOf(o))
        /\ o.ok /\ IsStringLeaf(o.out)

\* C4: a leaf condition (an element of the list or a member of a group) that
\* lacks field, operator or value makes the call fail with ValueError.
C4_MissingKeyIsValidationError ==
    \A o \in Observations :
        (IsDict(o.cond) /\ ~IsComplete(o.cond)) => (~o.ok /\ o.out.kind = "ValueError")

\* C5: the call returns an expression or fails with ValueError; no other
\* exception escapes.
C5_OnlyValidationError == pc = "raised" => result.kind = "ValueError"

\* C6: a condition with a numeric operator whose value is a string that does
\* not parse as a number makes the call fail with ValueError; no expression is
\* produced for it.
C6_UnparseableNumericValue ==
    \A o \in Observations :
        (IsNumericCase(o) /\ IsNonNumericString(ValueOf(o)))
        => (~o.ok /\ pc = "raised" /\ result.kind = "ValueError")

C6_Witness ==
    \E o \in Observations :
        /\ IsNumericCase(o) /\ OperatorOf(o) = ">" /\ ValueOf(o) = PyStr(<<"a">>)
        /\ ~o.ok /\ pc = "raised"

\* C7: a condition whose operator is in neither table makes the call fail with
\* ValueError, and the message names the operator and lists every valid one.
C7_UnknownOperator ==
    \A o \in Observations :
        (IsComplete(o.cond) /\ OperatorOf(o) \notin DocumentedOperators)
        => /\ ~o.ok /\ pc = "raised" /\ result.kind = "ValueError"
           /\ Len(result.args) >= 2 /\ result.args[2] = OperatorOf(o)
           /\ \A k \in DocumentedOperators : \E n \in 3..Len(result.args) : result.args[n] = k

C7_Witness ==
    \E o \in Observations :
        /\ IsComplete(o.cond) /\ OperatorOf(o) = "foo"
        /\ ~o.ok /\ pc = "raised" /\ result.args[2] = "foo"

\* C8: every string condition compiles to a string_filter whose match_type is
\* the documented mapping of its operator (starts_with to BEGINS_WITH, ...; an
\* enum name to itself).
C8_StringMatchType ==
    \A o \in Observations :
        IsStringCase(o)
        => /\ o.ok /\ IsStringLeaf(o.out)
           /\ o.out.filter.string_filter.match_type = DocumentedMatchType(OperatorOf(o))

C8_Witness ==
    \E o \in Observations :
        /\ IsStringCase(o) /\ OperatorOf(o) = "starts_with" /\ o.ok
        /\ IsStringLeaf(o.out)
        /\ o.out.filter.string_filter.match_type = "BEGINS_WITH"

\* C9: the leaf of a string condition carries the condition's field name, the
\* value as a string, and case_sensitive as given, false when the key is absent.
C9_StringLeafFields ==
    \A o \in Observations :
        IsStringCase(o)
        => /\ o.ok /\ IsStringLeaf(o.out)
           /\ o.out.filter.field_name = o.cond.d.field
           /\ o.out.filter.string_filter.value = Str(ValueOf(o))
           /\ ValueOf(o).t = "str" => o.out.filter.string_filter.value = ValueOf(o).s
           /\ "case_sensitive" \in DOMAIN o.cond.d
                => o.out.filter.string_filter.case_sensitive = o.cond.d.case_sensitive
           /\ "case_sensitive" \notin DOMAIN o.cond.d
                => o.out.filter.string_filter.case_sensitive = FALSE

C9_Witness ==
    \E o \in Observations :
        /\ IsStringCase(o) /\ "case_sensitive" \notin DOMAIN o.cond.d
        /\ ValueOf(o) = PyInt(1) /\ o.ok /\ IsStringLeaf(o.out)
        /\ o.out.filter.string_filter.value = <<"1">>
        /\ o.out.filter.string_filter.case_sensitive = FALSE

\* C10: an element with key AND compiles to one and_group node, an element with
\* key OR (and no AND) to one or_group node, whose expressions are the leaves of
\* its members, one per member in member order; the returned and_group holds
\* that node at the element's position.
C10_GroupNode ==
    \A i \in 1..Len(filters) :
        (/\ IsListGroup(filters[i]) /\ Attempted(i)
         /\ \A j \in 1..Len(MembersOf(filters[i])) :
               build_single_filter(MembersOf(filters[i])[j]).ok)
        => /\ Processed(i)
           /\ IF IsAndElement(filters[i]) THEN IsAndNode(expressions[i])
              ELSE IsOrNode(expressions[i])
           /\ Len(GroupExprs(expressions[i])) = Len(MembersOf(filters[i]))
           /\ \A j \in 1..Len(MembersOf(filters[i])) :
                 /\ IsLeaf(GroupExprs(expressions[i])[j])
                 /\ GroupExprs(expressions[i])[j]
                      = build_single_filter(MembersOf(filters[i])[j]).val
           /\ pc = "returned"
                => /\ IsAndNode(result)
                   /\ Len(result.and_group.expressions) = Len(filters)
                   /\ result.and_group.expressions[i] = expressions[i]

C10_Witness ==
    /\ pc = "returned" /\ Len(filters) = 1
    /\ IsAndElement(filters[1]) /\ IsListGroup(filters[1])
    /\ Len(MembersOf(filters[1])) = 2
    /\ IsAndNode(result)
    /\ Len(result.and_group.expressions) = 1
    /\ IsAndNode(result.and_group.expressions[1])
    /\ Len(GroupExprs(result.and_group.expressions[1])) = 2
    /\ \A j \in 1..2 : IsStringLeaf(GroupExprs(result.and_group.expressions[1])[j])
    /\ GroupExprs(result.and_group.expressions[1])[1].filter.field_name
         # GroupExprs(result.and_group.expressions[1])[2].filter.field_name

\* the leaves of the members of a group, and the exception of the first
\* member that does not compile
AllCompileIn(ms) == \A j \in 1..Len(ms) : build_single_filter(ms[j]).ok
LeavesOf(ms) == [j \in 1..Len(ms) |-> build_single_filter(ms[j]).val]
FirstFailureIn(ms) ==
    build_single_filter(
        ms[CHOOSE j \in 1..Len(ms) :
              /\ ~build_single_filter(ms[j]).ok
              /\ \A k \in 1..(j - 1) : build_single_filter(ms[k]).ok]).exc
\* what came of filters[i] is what comes of the members ms under the group
\* node: the node of their leaves, or the exception of the first that fails
CompiledAsGroupOf(i, ms, node) ==
    IF AllCompileIn(ms)
    THEN Processed(i) /\ expressions[i] = node
    ELSE Failed(i) /\ result = FirstFailureIn(ms)
CompiledAsLeaf(i) ==
    IF build_single_filter(filters[i]).ok
    THEN /\ Processed(i) /\ IsLeaf(expressions[i])
         /\ expressions[i] = build_single_filter(filters[i]).val
    ELSE Failed(i) /\ result = build_single_filter(filters[i]).exc

\* C27: a dict of the list with the key AND compiles to the and_group of its
\* AND members alone, whatever other keys it has: an OR list or field,
\* operator and value beside it change nothing and raise nothing.  A dict
\* with OR and no AND compiles to the or_group of its OR members, and only a
\* dict with neither key is compiled as a condition.
C27_AndBeforeOr ==
    \A i \in 1..Len(filters) :
        (Attempted(i) /\ IsDict(filters[i])) =>
            IF "AND" \in DOMAIN filters[i].d
            THEN filters[i].d.AND.t = "list"
                     => CompiledAsGroupOf(i, filters[i].d.AND.xs,
                                          AndGroup(LeavesOf(filters[i].d.AND.xs)))
            ELSE IF "OR" \in DOMAIN filters[i].d
            THEN filters[i].d.OR.t = "list"
                     => CompiledAsGroupOf(i, filters[i].d.OR.xs,
                                          OrGroup(LeavesOf(filters[i].d.OR.xs)))
            ELSE CompiledAsLeaf(i)

\* a returned call on a dict with AND next to an OR list whose member does
\* not compile
C27_Witness ==
    /\ pc = "returned" /\ Len(filters) = 1 /\ IsDict(filters[1])
    /\ {"AND", "OR"} \subseteq DOMAIN filters[1].d
    /\ filters[1].d.AND.t = "list" /\ Len(filters[1].d.AND.xs) = 1
    /\ filters[1].d.OR.t = "list" /\ Len(filters[1].d.OR.xs) = 1
    /\ ~build_single_filter(filters[1].d.OR.xs[1]).ok
    /\ IsAndNode(result.and_group.expressions[1])
    /\ result.and_group.expressions[1]
         = AndGroup(<<build_single_filter(filters[1].d.AND.xs[1]).val>>)

(***************************************************************************)
(* format_report_response(response)  (mcp_ga/utils.py)                     *)
(*                                                                         *)
(* The response and what is built from it are dicts with str keys:         *)
(* functions from their keys.  Lists are sequences.  The "value" of a      *)
(* value entry and the values of a formatted row are tagged Python values. *)
(***************************************************************************)
EmptyDict == << >>
\* d.get(k, default)
Get(d, k, default) == IF k \in DOMAIN d THEN d[k] ELSE default
\* d[k] = v
SetItem(d, k, v) == [x \in DOMAIN d \cup {k} |-> IF x = k THEN v ELSE d[x]]

\* [header.get("name") for header in response.get(key, [])]; every header of
\* the model carries its name.
HeaderNames(resp, key) ==
    [i \in 1..Len(Get(resp, key, << >>)) |-> Get(resp, key, << >>)[i].name]

\* float.is_integer()
IsInteger(f) == f.e = 0
\* int(float)
IntOf(f) == PyInt(IF f.neg THEN -f.m ELSE f.m)

\* Mutant of Narrow: a whole number stays a float.
Narrow_KeepFloat(metric_value, parsed) ==
    IF parsed.ok THEN Return(parsed.val)
    ELSE IF parsed.exc.kind \in {"ValueError", "AttributeError"} THEN Return(metric_value)
    ELSE parsed

\* try: float(metric_value), int(...) when whole; except (ValueError,
\* AttributeError): pass.  parsed is what float(metric_value) gave.
Narrow(metric_value, parsed) ==
    IF parsed.ok
    THEN Return(IF IsInteger(parsed.val) THEN IntOf(parsed.val) ELSE parsed.val)
    ELSE IF parsed.exc.kind \in {"ValueError", "AttributeError"} THEN Return(metric_value)
    ELSE parsed

\* The metric value of a row: lines 89-97.
CoerceRowMetric(value) == Narrow(Get(value, "value", PyNone), Float(Get(value, "value", PyNone)))

\* Mutant of NarrowTotal: a whole number stays a float in the totals.
NarrowTotal_KeepFloat(metric_value, parsed) ==
    IF parsed.ok THEN Return(parsed.val)
    ELSE IF parsed.exc.kind \in {"ValueError", "AttributeError"} THEN Return(metric_value)
    ELSE parsed

\* The same steps as written a second time for the totals: lines 108-113.
NarrowTotal(metric_value, parsed) ==
    IF parsed.ok
    THEN Return(IF IsInteger(parsed.val) THEN IntOf(parsed.val) ELSE parsed.val)
    ELSE IF parsed.exc.kind \in {"ValueError", "AttributeError"} THEN Return(metric_value)
    ELSE parsed

\* The metric value of the totals: lines 107-113.
CoerceTotalMetric(value) ==
    NarrowTotal(Get(value, "value", PyNone), Float(Get(value, "value", PyNone)))

\* Mutant of AddDimensions: a value beyond the headers raises.
RECURSIVE AddDimensions_Strict(_, _, _, _)
AddDimensions_Strict(formatted_row, values, i, dimension_headers) ==
    IF i > Len(values) THEN Return(formatted_row)
    ELSE IF i <= Len(dimension_headers)
    THEN AddDimensions_Strict(SetItem(formatted_row, dimension_headers[i],
                                      Get(values[i], "value", PyNone)),
                              values, i + 1, dimension_headers)
    ELSE Raise("IndexError", <<"list index out of range">>)

\* for i, value in enumerate(row.get("dimensionValues", [])): lines 82-84
\* (i counts from 1 here).
RECURSIVE AddDimensions(_, _, _, _)
AddDimensions(formatted_row, values, i, dimension_headers) ==
    IF i > Len(values) THEN Return(formatted_row)
    ELSE IF i <= Len(dimension_headers)
    THEN AddDimensions(SetItem(formatted_row, dimension_headers[i],
                               Get(values[i], "value", PyNone)),
                       values, i + 1, dimension_headers)
    ELSE AddDimensions(formatted_row, values, i + 1, dimension_headers)

\* formatted_row[metric_headers[i]] = metric_value, unless the coercion raised
PutMetric(formatted_row, key, coerced) ==
    IF coerced.ok THEN Return(SetItem(formatted_row, key, coerced.val)) ELSE coerced

\* for i, value in enumerate(row.get("metricValues", [])): lines 87-98.
\* acc is the row so far, or the exception that ended the loop.
RECURSIVE AddMetrics(_, _, _, _)
AddMetrics(acc, values, i, metric_headers) ==
    IF ~acc.ok \/ i > Len(values) THEN acc
    ELSE IF i <= Len(metric_headers)
    THEN AddMetrics(PutMetric(acc.val, metric_headers[i], CoerceRowMetric(values[i])),
                    values, i + 1, metric_headers)
    ELSE AddMetrics(acc, values, i + 1, metric_headers)

\* One iteration of `for row in response.get("rows", [])`: lines 79-98.
FormatRowOf(row, dimension_headers, metric_headers) ==
    AddMetrics(AddDimensions(EmptyDict, Get(row, "dimensionValues", << >>), 1,
                             dimension_headers),
               Get(row, "metricValues", << >>), 1, metric_headers)

\* formatted["totals"][metric_headers[i]] = metric_value: line 114; when the
\* coercion raised, the totals stay as the assignments before it left them
PutTotal(totals, key, coerced) ==
    IF coerced.ok THEN Return(SetItem(totals, key, coerced.val))
    ELSE Partial(totals, coerced)

\* for i, value in enumerate(...): lines 105-114.  acc is formatted["totals"]
\* so far, with the exception that ended the loop when there is one.
RECURSIVE AddTotals(_, _, _, _)
AddTotals(acc, values, i, metric_headers) ==
    IF ~acc.ok \/ i > Len(values) THEN acc
    ELSE IF i <= Len(metric_headers)
    THEN AddTotals(PutTotal(acc.val, metric_headers[i], CoerceTotalMetric(values[i])),
                   values, i + 1, metric_headers)
    ELSE AddTotals(acc, values, i + 1, metric_headers)

\* Mutant of TotalsOf: the last entry of the totals is the one formatted.
TotalsOf_Last(totals, metric_headers) ==
    IF totals = << >>
    THEN Partial(EmptyDict, Raise("IndexError", <<"list index out of range">>))
    ELSE AddTotals(Return(EmptyDict), Get(totals[Len(totals)], "metricValues", << >>), 1,
                   metric_headers)

\* formatted["totals"] = {}, then response["totals"][0].get("metricValues", [])
\* formatted: lines 104-114.  The IndexError of an empty totals list comes
\* after the assignment of line 104.
TotalsOf(totals, metric_headers) ==
    IF totals = << >>
    THEN Partial(EmptyDict, Raise("IndexError", <<"list index out of range">>))
    ELSE AddTotals(Return(EmptyDict), Get(totals[1], "metricValues", << >>), 1,
                   metric_headers)

\* Mutant of InitialFormatted: without the metadata.
InitialFormatted_NoMetadata(resp) ==
    [rows |-> << >>, row_count |-> Get(resp, "rowCount", 0)]

\* Mutant of InitialFormatted: the row count is the number of rows.
InitialFormatted_Counted(resp) ==
    [rows |-> << >>,
     row_count |-> Len(Get(resp, "rows", << >>)),
     metadata |-> Get(resp, "metadata", EmptyDict)]

\* formatted = {...}: lines 61-65.
InitialFormatted(resp) ==
    [rows |-> << >>,
     row_count |-> Get(resp, "rowCount", 0),
     metadata |-> Get(resp, "metadata", EmptyDict)]

(***************************************************************************)
(* Responses.                                                              *)
(***************************************************************************)
DimNames == <<"country", "city", "deviceCategory", "browser">>
MetricNames == <<"sessions", "activeUsers", "screenPageViews", "eventCount">>
Header(name) == [name |-> name]
Prefixes(names) ==
    {[i \in 1..k |-> Header(names[i])] : k \in 0..Min(MaxHeaders, Len(names))}

\* header lists: distinct names, a name twice, a metric named as a dimension
DimHeaderLists == Prefixes(DimNames) \cup {<<Header("country"), Header("country")>>}
MetricHeaderLists ==
    Prefixes(MetricNames)
    \cup {<<Header("sessions"), Header("sessions")>>, <<Header("country")>>}

ValueEntry(v) == [value |-> v]
NoValueEntry == EmptyDict
US == PyStr(<<"a">>)
JP == PyStr(<<"a", "1">>)
DimEntries == {ValueEntry(US), NoValueEntry}
MetricEntries ==
    {ValueEntry(PyStr(<<"5", ".", "0">>)), ValueEntry(PyStr(<<"1", ".", "5">>)),
     ValueEntry(PyStr(<<"a">>)), NoValueEntry}

SeqsUpTo(S, n) == UNION {[1..k -> S] : k \in 0..n}

\* one metric column, one row and a totals entry with the same value
CoercionResponses ==
    {[metricHeaders |-> <<Header("sessions")>>,
      rows |-> <<[metricValues |-> <<ValueEntry(v)>>]>>,
      totals |-> <<[metricValues |-> <<ValueEntry(v)>>]>>] : v \in Values}

\* one row whose value lists are shorter or longer than the header lists
ZipResponses ==
    {[dimensionHeaders |-> dh, metricHeaders |-> mh,
      rows |-> <<[dimensionValues |-> dv, metricValues |-> mv]>>] :
        dh \in DimHeaderLists, dv \in SeqsUpTo(DimEntries, MaxHeaders + 1),
        mh \in {<< >>, <<Header("sessions")>>},
        mv \in {<< >>, <<ValueEntry(PyStr(<<"1", ".", "5">>))>>}}
    \cup
    {[dimensionHeaders |-> dh, metricHeaders |-> mh,
      rows |-> <<[dimensionValues |-> dv, metricValues |-> mv]>>,
      totals |-> <<[metricValues |-> mv]>>] :
        dh \in {<<Header("country")>>}, dv \in {<< >>, <<ValueEntry(US)>>},
        mh \in MetricHeaderLists, mv \in SeqsUpTo(MetricEntries, MaxHeaders + 1)}

RowPool ==
    {[dimensionValues |-> <<ValueEntry(US)>>, metricValues |-> <<ValueEntry(PyStr(<<"5">>))>>],
     [dimensionValues |-> <<ValueEntry(JP)>>,
      metricValues |-> <<ValueEntry(PyStr(<<"1", ".", "5">>))>>],
     EmptyDict,
     [metricValues |-> <<NoValueEntry>>]}

TotalsPool ==
    {[metricValues |-> <<ValueEntry(PyStr(<<"5", ".", "0">>))>>],
     [metricValues |-> <<ValueEntry(PyStr(<<"a">>))>>],
     EmptyDict,
     [metricValues |-> <<NoValueEntry>>]}

Metadata == [currencyCode |-> "USD"]
ResponseKeys ==
    {"rowCount", "metadata", "dimensionHeaders", "metricHeaders", "rows", "totals"}

ShapeKeys ==
    {ResponseKeys, ResponseKeys \ {"totals"}, ResponseKeys \ {"rowCount", "metadata"},
     {"rows", "metricHeaders"}, {"totals", "metricHeaders"}, {"rows"}, {}}

ShapeResponse(rc, rs, ts, ks) ==
    Restrict([rowCount |-> rc, metadata |-> Metadata,
              dimensionHeaders |-> <<Header("country")>>,
              metricHeaders |-> <<Header("sessions")>>,
              rows |-> rs, totals |-> ts], ks)

\* every key present or absent; any number of rows with short totals, any
\* totals list with one row
ShapeResponses ==
    {ShapeResponse(rc, rs, ts, ks) :
        rc \in {0, 7}, rs \in SeqsUpTo(RowPool, MaxRows),
        ts \in {<< >>, <<[metricValues |-> <<ValueEntry(PyStr(<<"5">>))>>]>>},
        ks \in ShapeKeys}
    \cup
    {ShapeResponse(rc, rs, ts, ks) :
        rc \in {0, 7}, rs \in SeqsUpTo(RowPool, 1),
        ts \in SeqsUpTo(TotalsPool, MaxTotals), ks \in ShapeKeys}

\* no rows, and totals whose second value has no "value"
PartialTotalsResponses ==
    {[metricHeaders |-> <<Header("sessions"), Header("activeUsers")>>,
      totals |-> <<[metricValues |-> <<ValueEntry(PyStr(<<"5", ".", "0">>)), second>>]>>] :
        second \in MetricEntries}

Responses ==
    CoercionResponses \cup ZipResponses \cup ShapeResponses \cup PartialTotalsResponses

(***************************************************************************)
(* The call of format_report_response as a state machine: the dict is      *)
(* created, then one step per row, then the totals, then the return.       *)
(***************************************************************************)
FormatInit ==
    /\ response \in Responses
    /\ formatted = EmptyDict
    /\ fpc = "start"
    /\ fresult = PyNone
    /\ BuilderIdle /\ RendererIdle /\ PropertyIdle /\ ServiceIdle

FormatterFrame == UNCHANGED <<builder_vars, renderer_vars, property_vars, service_vars>>

ResponseRows == Get(response, "rows", << >>)
dimension_headers == HeaderNames(response, "dimensionHeaders")
metric_headers == HeaderNames(response, "metricHeaders")

\* Mutant of FormatStart: the metadata is popped from the response.
FormatStart_Pop ==
    /\ fpc = "start"
    /\ formatted' = InitialFormatted(response)
    /\ response' = Restrict(response, DOMAIN response \ {"metadata"})
    /\ fpc' = "rows"
    /\ UNCHANGED fresult
    /\ FormatterFrame

\* lines 61-75
FormatStart ==
    /\ fpc = "start"
    /\ formatted' = InitialFormatted(response)
    /\ fpc' = "rows"
    /\ UNCHANGED <<response, fresult>>
    /\ FormatterFrame

\* a step leaves formatted[key] as built holds it, and goes on or ends the
\* call with the exception raised
FormatStep(built, key, next_pc) ==
    /\ formatted' = SetItem(formatted, key, built.val)
    /\ IF built.ok THEN fpc' = next_pc /\ fresult' = fresult
       ELSE fpc' = "raised" /\ fresult' = built.exc
    /\ UNCHANGED response
    /\ FormatterFrame

\* Mutant of AppendRow: the row is put in front of the rows.
AppendRow_Front(built) ==
    IF built.ok THEN Return(<<built.val>> \o formatted.rows)
    ELSE Partial(formatted.rows, built)

\* formatted["rows"].append(formatted_row): line 100; a row that raised is not
\* appended
AppendRow(built) ==
    IF built.ok THEN Return(Append(formatted.rows, built.val))
    ELSE Partial(formatted.rows, built)

\* one iteration of the loop of lines 78-100
FormatRow ==
    /\ fpc = "rows"
    /\ Len(formatted.rows) < Len(ResponseRows)
    /\ FormatStep(AppendRow(FormatRowOf(ResponseRows[Len(formatted.rows) + 1],
                                        dimension_headers, metric_headers)),
                  "rows", "rows")

\* if "totals" in response: lines 103-114; formatted["totals"] holds what was
\* assigned to it when the call ends here with an exception
FormatTotals ==
    /\ fpc = "rows"
    /\ Len(formatted.rows) = Len(ResponseRows)
    /\ "totals" \in DOMAIN response
    /\ FormatStep(TotalsOf(response.totals, metric_headers), "totals", "totals")

\* return formatted: line 116
FormatReturn ==
    /\ \/ fpc = "totals"
       \/ /\ fpc = "rows"
          /\ Len(formatted.rows) = Len(ResponseRows)
          /\ "totals" \notin DOMAIN response
    /\ fresult' = formatted
    /\ fpc' = "returned"
    /\ UNCHANGED <<response, formatted>>
    /\ FormatterFrame

FormatNext == FormatStart \/ FormatRow \/ FormatTotals \/ FormatReturn

SpecFormat == FormatInit /\ [][FormatNext]_vars

(***************************************************************************)
(* What a call of format_report_response shows.                            *)
(***************************************************************************)
FormatStarted == fpc \in {"rows", "totals", "returned", "raised"}
FormatReturned == fpc = "returned"
FormatRaised == fpc = "raised"
\* the call ended in the loop over the rows, at the row after the formatted ones
RaisedInRow == FormatRaised /\ Len(formatted.rows) < Len(ResponseRows)
RaisedInTotals == FormatRaised /\ Len(formatted.rows) = Len(ResponseRows)

DimensionValues(row) == Get(row, "dimensionValues", << >>)
MetricValues(row) == Get(row, "metricValues", << >>)
ValueOfEntry(entry) == Get(entry, "value", PyNone)
\* the positions that have both a value and a header
Paired(values, headers) == 1..Min(Len(values), Len(headers))
\* no later paired position carries the same header name
LastOfName(i, values, headers) ==
    \A j \in Paired(values, headers) : j > i => headers[j] # headers[i]
Names(values, headers) == {headers[i] : i \in Paired(values, headers)}

\* spec section 4.2: int when the value parses as a whole number, float when it
\* parses otherwise, the original when it does not parse
DocumentedCoercion(v) ==
    IF ~Float(v).ok THEN v
    ELSE IF Float(v).val.e = 0
    THEN PyInt(IF Float(v).val.neg THEN -Float(v).val.m ELSE Float(v).val.m)
    ELSE Float(v).val
\* float() of the value raises something the formatter does not catch
Uncoercible(v) == ~Float(v).ok /\ Float(v).exc.kind \notin {"ValueError", "AttributeError"}

\* C11: format_report_response never raises, however malformed the response.
\* The code raises TypeError for a metric entry without a value (float(None))
\* and IndexError for an empty totals list.
C11_NeverRaises == ~FormatRaised

\* the formatted row pairs values and headers by position
PairedByPosition(formatted_row, row) ==
    /\ DOMAIN formatted_row =
           Names(DimensionValues(row), dimension_headers)
           \cup Names(MetricValues(row), metric_headers)
    /\ \A i \in Paired(DimensionValues(row), dimension_headers) :
           /\ LastOfName(i, DimensionValues(row), dimension_headers)
           /\ dimension_headers[i] \notin Names(MetricValues(row), metric_headers)
           => formatted_row[dimension_headers[i]] = ValueOfEntry(DimensionValues(row)[i])
    /\ \A j \in Paired(MetricValues(row), metric_headers) :
           LastOfName(j, MetricValues(row), metric_headers)
           => formatted_row[metric_headers[j]]
                  = DocumentedCoercion(ValueOfEntry(MetricValues(row)[j]))

\* C12: every formatted row holds exactly the header names of the positions
\* below the shorter of the two lengths, each with the value of its position
\* (the last one when a name repeats); values beyond the headers are dropped,
\* headers beyond the values get no key; and a row ends the call only through
\* the value of a paired metric position, never through the lengths.
C12_PositionalPairing ==
    FormatStarted =>
        /\ \A k \in 1..Len(formatted.rows) :
               PairedByPosition(formatted.rows[k], ResponseRows[k])
        /\ RaisedInRow =>
               \E j \in Paired(MetricValues(ResponseRows[Len(formatted.rows) + 1]),
                               metric_headers) :
                   Uncoercible(ValueOfEntry(
                       MetricValues(ResponseRows[Len(formatted.rows) + 1])[j]))

\* a returned call with a row of more dimension values than headers and fewer
\* metric values than headers
C12_Witness ==
    /\ FormatReturned
    /\ \E k \in 1..Len(ResponseRows) :
           /\ Len(DimensionValues(ResponseRows[k])) > Len(dimension_headers)
           /\ Len(dimension_headers) > 0
           /\ Len(MetricValues(ResponseRows[k])) < Len(metric_headers)
           /\ DOMAIN fresult.rows[k] = {dimension_headers[i] : i \in 1..Len(dimension_headers)}

\* the metric values of the formatted rows, each with the string it came from
CoercedStrings ==
    {[from |-> ValueOfEntry(MetricValues(ResponseRows[k])[j]),
      to |-> formatted.rows[k][metric_headers[j]]] :
        <<k, j>> \in {kj \in (1..Len(formatted.rows)) \X (1..MaxHeaders + 1) :
            /\ kj[2] \in Paired(MetricValues(ResponseRows[kj[1]]), metric_headers)
            /\ LastOfName(kj[2], MetricValues(ResponseRows[kj[1]]), metric_headers)
            /\ ValueOfEntry(MetricValues(ResponseRows[kj[1]])[kj[2]]).t = "str"}}

\* C13: a metric string that parses as a whole number becomes that int, one
\* that parses as another number becomes that float, one that does not parse
\* is kept.
C13_MetricCoercion ==
    FormatStarted =>
        \A c \in CoercedStrings :
            /\ IsNumericString(c.from) /\ ParseFloat(c.from.s).val.e = 0
               => /\ c.to.t = "int"
                  /\ c.to.n = (IF ParseFloat(c.from.s).val.neg THEN -1 ELSE 1)
                              * ParseFloat(c.from.s).val.m
            /\ IsNumericString(c.from) /\ ParseFloat(c.from.s).val.e > 0
               => c.to = ParseFloat(c.from.s).val
            /\ IsNonNumericString(c.from) => c.to = c.from

\* "5.0" became 5, "1.5" became 1.5 and "a" stayed "a" in one returned row
C13_Witness ==
    /\ FormatReturned
    /\ {[from |-> PyStr(<<"5", ".", "0">>), to |-> PyInt(5)],
        [from |-> PyStr(<<"1", ".", "5">>), to |-> PyFloat(FALSE, 15, 1)],
        [from |-> PyStr(<<"a">>), to |-> PyStr(<<"a">>)]} \subseteq CoercedStrings

FirstTotals == MetricValues(response.totals[1])

\* C14: a value of the totals is coerced as the same value of a row is: where
\* a row and the first totals entry hold the same value at a metric position,
\* the formatted row and the formatted totals hold the same value.
C14_TotalsCoercedAsRows ==
    fpc \in {"totals", "returned"} /\ "totals" \in DOMAIN response =>
        \A k \in 1..Len(formatted.rows) :
            \A j \in Paired(MetricValues(ResponseRows[k]), metric_headers)
                     \cap Paired(FirstTotals, metric_headers) :
                /\ LastOfName(j, MetricValues(ResponseRows[k]), metric_headers)
                /\ LastOfName(j, FirstTotals, metric_headers)
                /\ ValueOfEntry(MetricValues(ResponseRows[k])[j]) = ValueOfEntry(FirstTotals[j])
                => formatted.totals[metric_headers[j]]
                       = formatted.rows[k][metric_headers[j]]

\* a returned call whose row and totals both held "5.0"
C14_Witness ==
    /\ FormatReturned
    /\ "totals" \in DOMAIN response
    /\ Len(ResponseRows) = 1
    /\ MetricValues(ResponseRows[1]) = <<ValueEntry(PyStr(<<"5", ".", "0">>))>>
    /\ FirstTotals = <<ValueEntry(PyStr(<<"5", ".", "0">>))>>
    /\ fresult.totals = fresult.rows[1]
    /\ fresult.totals["sessions"] = PyInt(5)

\* C15: a returned call of a response with totals holds a totals map built
\* from the first totals entry alone, metric header name to coerced value; a
\* returned call of a response without totals holds no totals key.
C15_TotalsFromFirstEntry ==
    FormatReturned =>
        IF "totals" \in DOMAIN response
        THEN /\ "totals" \in DOMAIN fresult
             /\ DOMAIN fresult.totals = Names(FirstTotals, metric_headers)
             /\ \A j \in Paired(FirstTotals, metric_headers) :
                    LastOfName(j, FirstTotals, metric_headers)
                    => fresult.totals[metric_headers[j]]
                           = DocumentedCoercion(ValueOfEntry(FirstTotals[j]))
        ELSE "totals" \notin DOMAIN fresult

\* a returned call whose totals had a second entry of another value
C15_Witness ==
    /\ FormatReturned
    /\ "totals" \in DOMAIN response
    /\ Len(response.totals) > 1
    /\ FirstTotals = <<ValueEntry(PyStr(<<"5", ".", "0">>))>>
    /\ MetricValues(response.totals[2]) = <<ValueEntry(PyStr(<<"a">>))>>
    /\ fresult.totals["sessions"] = PyInt(5)

TotalsKey == IF "totals" \in DOMAIN response THEN {"totals"} ELSE {}

\* C16 as stated: the output has exactly the keys rows and row_count, plus
\* totals when the response carries totals.
C16_ExactKeys ==
    FormatReturned => DOMAIN fresult = {"rows", "row_count"} \cup TotalsKey

\* C16: the output has exactly the keys rows, row_count and metadata, plus
\* totals when and only when the response carries totals.
C16_ExactKeysWithMetadata ==
    FormatReturned => DOMAIN fresult = {"rows", "row_count", "metadata"} \cup TotalsKey

\* a returned call with totals, the metadata of the response in its output
C16_Witness ==
    /\ FormatReturned
    /\ "totals" \in DOMAIN response
    /\ "metadata" \in DOMAIN response
    /\ fresult.metadata = response.metadata
    /\ "totals" \in DOMAIN fresult

\* C28: the row_count of the output is the rowCount of the response as it is,
\* 0 when the response has none; it is not counted from the rows and need
\* not be the number of rows of the output.
C28_RowCountCopied ==
    /\ FormatStarted => formatted.row_count = Get(response, "rowCount", 0)
    /\ FormatReturned => fresult.row_count = Get(response, "rowCount", 0)

\* a returned call whose row_count is not the number of its rows
C28_Witness ==
    /\ FormatReturned
    /\ "rowCount" \in DOMAIN response
    /\ fresult.row_count = response.rowCount
    /\ Len(fresult.rows) > 0
    /\ fresult.row_count # Len(fresult.rows)

\* no value of the row stands at a position that has a header
NoUsableValues(row) ==
    /\ Paired(DimensionValues(row), dimension_headers) = {}
    /\ Paired(MetricValues(row), metric_headers) = {}

\* C29: the rows of the output are those of the response, one for one and in
\* order: the i-th is built from the i-th response row alone, and a row
\* without usable values gives an empty mapping at its place.  While the
\* call runs the rows formatted so far are the first rows of the response;
\* a call that returns has formatted them all.
C29_OneRowPerResponseRow ==
    FormatStarted =>
        /\ Len(formatted.rows) <= Len(ResponseRows)
        /\ \A i \in 1..Len(formatted.rows) :
               /\ FormatRowOf(ResponseRows[i], dimension_headers, metric_headers).ok
               /\ formatted.rows[i]
                    = FormatRowOf(ResponseRows[i], dimension_headers, metric_headers).val
               /\ PairedByPosition(formatted.rows[i], ResponseRows[i])
               /\ NoUsableValues(ResponseRows[i]) => formatted.rows[i] = EmptyDict
        /\ FormatReturned
              => /\ fresult.rows = formatted.rows
                 /\ Len(fresult.rows) = Len(ResponseRows)

\* a returned call on two rows, the first without values, the second with
C29_Witness ==
    /\ FormatReturned
    /\ Len(ResponseRows) = 2
    /\ NoUsableValues(ResponseRows[1])
    /\ ~NoUsableValues(ResponseRows[2])
    /\ Len(fresult.rows) = 2
    /\ fresult.rows[1] = EmptyDict
    /\ fresult.rows[2] # EmptyDict

(***************************************************************************)
(* The plain-text renderings: _format_report_results and the rendering of  *)
(* get_ga4_realtime_report.  A str is the sequence of its characters.      *)
(***************************************************************************)
ReportRuleWidth == 50
ReportSeparatorWidth == 50
RealtimeTitleRuleWidth == 25
RealtimeRuleWidth == 40

\* c * n
Repeat(c, n) == [i \in 1..n |-> c]

NoDataReturned ==
    <<"N", "o", " ", "d", "a", "t", "a", " ", "r", "e", "t", "u", "r", "n", "e", "d", " ",
      "f", "r", "o", "m", " ", "G", "A", "4", " ", "A", "P", "I">>
NoReportsFound ==
    <<"N", "o", " ", "r", "e", "p", "o", "r", "t", "s", " ", "f", "o", "u", "n", "d", " ",
      "i", "n", " ", "r", "e", "s", "p", "o", "n", "s", "e">>
NoDataRowsFound ==
    <<"N", "o", " ", "d", "a", "t", "a", " ", "r", "o", "w", "s", " ", "f", "o", "u", "n",
      "d">>
NoRealtimeData ==
    <<"N", "o", " ", "r", "e", "a", "l", "-", "t", "i", "m", "e", " ", "d", "a", "t", "a",
      " ", "a", "v", "a", "i", "l", "a", "b", "l", "e">>
RealtimeTitle ==
    <<"R", "e", "a", "l", "-", "t", "i", "m", "e", " ", "G", "A", "4", " ", "D", "a", "t",
      "a", ":">>
HeadersPrefix ==
    <<"H", "e", "a", "d", "e", "r", "s", ":", " ">>
RealtimeErrorPrefix ==
    <<"E", "r", "r", "o", "r", " ", "r", "e", "t", "r", "i", "e", "v", "i", "n", "g", " ",
      "r", "e", "a", "l", "-", "t", "i", "m", "e", " ", "G", "A", "4", " ", "d", "a",
      "t", "a", ":", " ">>
SequenceItem ==
    <<"s", "e", "q", "u", "e", "n", "c", "e", " ", "i", "t", "e", "m", " ">>
Bar == <<" ", "|", " ">>
NewLine == <<"\n">>

ExpectedStrFoundNone ==
    <<":", " ", "e", "x", "p", "e", "c", "t", "e", "d", " ", "s", "t", "r", " ", "i", "n",
      "s", "t", "a", "n", "c", "e", ",", " ", "N", "o", "n", "e", "T", "y", "p", "e",
      " ", "f", "o", "u", "n", "d">>

RECURSIVE Concat(_, _)
\* the str items of xs with sep between them
Concat(sep, xs) ==
    IF xs = << >> THEN << >>
    ELSE IF Len(xs) = 1 THEN xs[1].s
    ELSE xs[1].s \o sep \o Concat(sep, Tail(xs))

NotStr(xs) == {i \in 1..Len(xs) : xs[i].t # "str"}
FirstNotStr(xs) == CHOOSE i \in NotStr(xs) : \A j \in NotStr(xs) : i <= j

\* sep.join(xs): TypeError at the first item that is no str; the items of the
\* model that are no str are None
StrJoin(sep, xs) ==
    IF NotStr(xs) = {} THEN Return(Concat(sep, xs))
    ELSE Raise("TypeError",
               <<SequenceItem \o NatStr(FirstNotStr(xs) - 1) \o ExpectedStrFoundNone>>)

\* if headers: the header line and the rule; joined is " | ".join(headers),
\* which appends no line when it raises
HeaderLines(headers, joined, width) ==
    IF headers = << >> THEN Return(<< >>)
    ELSE IF joined.ok THEN Return(<<HeadersPrefix \o joined.val, Repeat("-", width)>>)
    ELSE Partial(<< >>, joined)

\* Mutant of RowLine: a row without values gives an empty line.
RowLine_KeepEmpty(row_values, joined) ==
    IF joined.ok THEN Return(<<joined.val>>) ELSE Partial(<< >>, joined)

\* if row_values: result_lines.append(" | ".join(row_values))
RowLine(row_values, joined) ==
    IF row_values = << >> THEN Return(<< >>)
    ELSE IF joined.ok THEN Return(<<joined.val>>)
    ELSE Partial(<< >>, joined)

\* the lines appended by first, then those appended by second; when one of
\* them raised, the lines appended before the exception
Then(first, second) ==
    IF ~first.ok THEN first
    ELSE IF ~second.ok THEN Partial(first.val \o second.val, second)
    ELSE Return(first.val \o second.val)

RECURSIVE Flatten(_)
Flatten(lists) == IF lists = << >> THEN << >> ELSE Head(lists) \o Flatten(Tail(lists))

\* the values of a row of _format_report_results: lines 213-223
ReportRowValues(row) ==
    Get(row, "dimensions", << >>)
    \o Flatten([k \in 1..Len(Get(row, "metrics", << >>)) |->
                   Get(Get(row, "metrics", << >>)[k], "values", << >>)])

\* the values of a row of the realtime report: lines 629-637
RealtimeRowValues(row) ==
    [k \in 1..Len(Get(row, "dimensionValues", << >>)) |->
        Get(Get(row, "dimensionValues", << >>)[k], "value", PyStr(<< >>))]
    \o [k \in 1..Len(Get(row, "metricValues", << >>)) |->
        Get(Get(row, "metricValues", << >>)[k], "value", PyStr(<< >>))]

RECURSIVE RowLines(_)
\* for row in rows: lines 212-226
RowLines(rows) ==
    IF rows = << >> THEN Return(<< >>)
    ELSE Then(RowLine(ReportRowValues(Head(rows)), StrJoin(Bar, ReportRowValues(Head(rows)))),
              RowLines(Tail(rows)))

\* Mutant of ReportBody: an empty row list gives no line.
ReportBody_Silent(rows) == RowLines(rows)

\* if not rows: "No data rows found"; otherwise the lines of the rows
ReportBody(rows) ==
    IF rows = << >> THEN Return(<<NoDataRowsFound>>) ELSE RowLines(rows)

\* metric.get("name") of the metricHeaderEntries: line 198
MetricEntryNames(entries) == [k \in 1..Len(entries) |-> Get(entries[k], "name", PyNone)]

\* headers = dimensions + metrics: lines 196-201
ReportHeaders(column_header) ==
    Get(column_header, "dimensions", << >>)
    \o MetricEntryNames(Get(Get(column_header, "metricHeader", EmptyDict),
                            "metricHeaderEntries", << >>))

ReportRowsOf(report) == Get(Get(report, "data", EmptyDict), "rows", << >>)

\* if i > 0: result_lines.append("\n" + "=" * 50); i counts from 0
ReportSeparator(i) ==
    IF i > 0 THEN <<NewLine \o Repeat("=", ReportSeparatorWidth)>> ELSE << >>

\* what one iteration of `for i, report in enumerate(reports)` appends
ReportLines(report, i) ==
    Then(Return(ReportSeparator(i)),
         Then(HeaderLines(ReportHeaders(Get(report, "columnHeader", EmptyDict)),
                          StrJoin(Bar, ReportHeaders(Get(report, "columnHeader", EmptyDict))),
                          ReportRuleWidth),
              ReportBody(ReportRowsOf(report))))

\* header.get('name') of each header: line 618
HeaderEntryNames(resp) ==
    MetricEntryNames(Get(resp, "dimensionHeaders", << >>))
    \o MetricEntryNames(Get(resp, "metricHeaders", << >>))

\* result_lines after the headers of the realtime report: lines 612-621
RealtimePreface(resp) ==
    Then(Return(<<RealtimeTitle, Repeat("=", RealtimeTitleRuleWidth)>>),
         HeaderLines(HeaderEntryNames(resp), StrJoin(Bar, HeaderEntryNames(resp)),
                     RealtimeRuleWidth))

\* "\n".join(result_lines)
JoinLines(lines) == PyStr(Concat(NewLine, [k \in 1..Len(lines) |-> PyStr(lines[k])]))

\* except Exception as e: the error text returned: lines 644-646
RealtimeError(exc) == PyStr(RealtimeErrorPrefix \o exc.args[1])

(***************************************************************************)
(* The responses rendered.                                                 *)
(***************************************************************************)
Cell(chars) == PyStr(chars)
TextDimNames == <<Cell(<<"d", "1">>), Cell(<<"d", "2">>), Cell(<<"d", "3">>), Cell(<<"d", "4">>)>>
TextMetricNames == <<Cell(<<"m", "1">>), Cell(<<"m", "2">>), Cell(<<"m", "3">>), Cell(<<"m", "4">>)>>
NamePrefixes(names) == {SubSeq(names, 1, k) : k \in 0..Min(MaxHeaders, Len(names))}
NameEntries(names) == [k \in 1..Len(names) |-> [name |-> names[k]]]

\* dimension names with one metric, metric names alone
ColumnNames ==
    {<<d, <<TextMetricNames[1]>> >> : d \in NamePrefixes(TextDimNames)}
    \cup {<< << >>, m>> : m \in NamePrefixes(TextMetricNames)}

ColumnHeaders ==
    {[dimensions |-> dm[1], metricHeader |-> [metricHeaderEntries |-> NameEntries(dm[2])]] :
        dm \in ColumnNames}
    \cup {EmptyDict,
          [dimensions |-> <<TextDimNames[1]>>],
          [metricHeader |-> EmptyDict],
          [metricHeader |-> [metricHeaderEntries |-> <<EmptyDict>>]]}

ReportRowPool ==
    {[dimensions |-> <<Cell(<<"a">>)>>, metrics |-> <<[values |-> <<Cell(<<"1">>)>>]>>],
     [dimensions |-> <<Cell(<<"b">>)>>,
      metrics |-> <<[values |-> <<Cell(<<"5">>), Cell(<<"7">>)>>]>>],
     EmptyDict,
     [dimensions |-> << >>, metrics |-> <<EmptyDict>>],
     [dimensions |-> <<Cell(<< >>)>>],
     [dimensions |-> <<Cell(<<"a">>), PyNone>>]}

SingleReports ==
    {[columnHeader |-> ch, data |-> [rows |-> rs]] :
        ch \in ColumnHeaders, rs \in SeqsUpTo(ReportRowPool, MaxRows)}
    \cup {EmptyDict, [data |-> EmptyDict]}

FullColumnHeader ==
    [dimensions |-> <<TextDimNames[1]>>,
     metricHeader |-> [metricHeaderEntries |-> NameEntries(<<TextMetricNames[1]>>)]]
ReportPool ==
    {[columnHeader |-> FullColumnHeader,
      data |-> [rows |-> <<[dimensions |-> <<Cell(<<"a">>)>>,
                            metrics |-> <<[values |-> <<Cell(<<"1">>)>>]>>]>>]],
     [columnHeader |-> FullColumnHeader, data |-> [rows |-> << >>]],
     [data |-> [rows |-> <<EmptyDict>>]],
     [columnHeader |-> FullColumnHeader,
      data |-> [rows |-> <<[dimensions |-> <<PyNone>>]>>]]}

ReportResponses ==
    {EmptyDict, [reports |-> << >>], [kind |-> "analyticsData#batch"]}
    \cup {[reports |-> <<r>>] : r \in SingleReports}
    \cup {[reports |-> rs] : rs \in SeqsUpTo(ReportPool, MaxReports)}

RealtimeHeaders ==
    {[dimensionHeaders |-> NameEntries(dm[1]), metricHeaders |-> NameEntries(dm[2])] :
        dm \in ColumnNames}
    \cup {EmptyDict,
          [dimensionHeaders |-> NameEntries(<<TextDimNames[1]>>)],
          [metricHeaders |-> <<EmptyDict>>]}

RealtimeRowPool ==
    {[dimensionValues |-> <<ValueEntry(Cell(<<"a">>))>>,
      metricValues |-> <<ValueEntry(Cell(<<"1">>))>>],
     [dimensionValues |-> <<ValueEntry(Cell(<<"b">>))>>,
      metricValues |-> <<ValueEntry(Cell(<<"5">>))>>],
     EmptyDict,
     [dimensionValues |-> << >>, metricValues |-> << >>],
     [metricValues |-> <<NoValueEntry>>],
     [dimensionValues |-> <<ValueEntry(PyNone)>>]}

Merge(f, g) == [k \in DOMAIN f \cup DOMAIN g |-> IF k \in DOMAIN f THEN f[k] ELSE g[k]]

RealtimeResponses ==
    {Merge(h, [rows |-> rs]) : h \in RealtimeHeaders, rs \in SeqsUpTo(RealtimeRowPool, MaxRows)}
    \cup RealtimeHeaders

(***************************************************************************)
(* The two renderings as state machines: one step per report of            *)
(* _format_report_results, one step per row of the realtime report.        *)
(***************************************************************************)
TextInit ==
    /\ \/ renderer = "report" /\ api_response \in ReportResponses
       \/ renderer = "realtime" /\ api_response \in RealtimeResponses
    /\ result_lines = << >>
    /\ report_idx = 0
    /\ tpc = "start"
    /\ text = PyNone
    /\ BuilderIdle /\ FormatterIdle /\ PropertyIdle /\ ServiceIdle

RendererFrame == UNCHANGED <<builder_vars, formatter_vars, property_vars, service_vars>>

reports == Get(api_response, "reports", << >>)
RealtimeRows == Get(api_response, "rows", << >>)

\* return of a str
ReturnText(chars) ==
    /\ text' = PyStr(chars)
    /\ tpc' = "returned"
    /\ UNCHANGED <<renderer, api_response, result_lines, report_idx>>
    /\ RendererFrame

\* lines 182-189
ReportStart ==
    /\ renderer = "report" /\ tpc = "start"
    /\ IF api_response = EmptyDict THEN ReturnText(NoDataReturned)
       ELSE IF reports = << >> THEN ReturnText(NoReportsFound)
       ELSE /\ tpc' = "reports"
            /\ UNCHANGED <<renderer, api_response, result_lines, report_idx, text>>
            /\ RendererFrame

\* the lines of a step appended; the report is done, or the exception leaves
\* the function after the lines appended before it
ReportAppend(lines) ==
    /\ result_lines' = result_lines \o lines.val
    /\ IF lines.ok
       THEN report_idx' = report_idx + 1 /\ UNCHANGED <<tpc, text>>
       ELSE tpc' = "raised" /\ text' = lines.exc /\ UNCHANGED report_idx
    /\ UNCHANGED <<renderer, api_response>>
    /\ RendererFrame

\* one iteration of the loop of lines 191-226
ReportOne ==
    /\ renderer = "report" /\ tpc = "reports"
    /\ report_idx < Len(reports)
    /\ ReportAppend(ReportLines(reports[report_idx + 1], report_idx))

\* line 228
ReportReturn ==
    /\ renderer = "report" /\ tpc = "reports"
    /\ report_idx = Len(reports)
    /\ text' = JoinLines(result_lines)
    /\ tpc' = "returned"
    /\ UNCHANGED <<renderer, api_response, result_lines, report_idx>>
    /\ RendererFrame

\* the lines of a step appended; the rendering goes on, or the handler
\* returns the error text after the lines appended before the exception
RealtimeAppend(lines, next_pc, next_idx) ==
    /\ result_lines' = result_lines \o lines.val
    /\ IF lines.ok
       THEN tpc' = next_pc /\ report_idx' = next_idx /\ UNCHANGED text
       ELSE text' = RealtimeError(lines.exc) /\ tpc' = "returned" /\ UNCHANGED report_idx
    /\ UNCHANGED <<renderer, api_response>>
    /\ RendererFrame

\* lines 609-621
RealtimeStart ==
    /\ renderer = "realtime" /\ tpc = "start"
    /\ IF api_response = EmptyDict THEN ReturnText(NoRealtimeData)
       ELSE RealtimeAppend(RealtimePreface(api_response), "rows", 0)

\* if not rows: lines 625-626
RealtimeNoRows ==
    /\ renderer = "realtime" /\ tpc = "rows"
    /\ RealtimeRows = << >>
    /\ RealtimeAppend(Return(<<NoRealtimeData>>), "join", 0)

\* one iteration of the loop of lines 628-640
RealtimeRow ==
    /\ renderer = "realtime" /\ tpc = "rows"
    /\ report_idx < Len(RealtimeRows)
    /\ RealtimeAppend(RowLine(RealtimeRowValues(RealtimeRows[report_idx + 1]),
                              StrJoin(Bar, RealtimeRowValues(RealtimeRows[report_idx + 1]))),
                      "rows", report_idx + 1)

\* line 642
RealtimeReturn ==
    /\ renderer = "realtime"
    /\ \/ tpc = "join"
       \/ tpc = "rows" /\ RealtimeRows # << >> /\ report_idx = Len(RealtimeRows)
    /\ text' = JoinLines(result_lines)
    /\ tpc' = "returned"
    /\ UNCHANGED <<renderer, api_response, result_lines, report_idx>>
    /\ RendererFrame

TextNext ==
    \/ ReportStart \/ ReportOne \/ ReportReturn
    \/ RealtimeStart \/ RealtimeNoRows \/ RealtimeRow \/ RealtimeReturn

SpecText == TextInit /\ [][TextNext]_vars

(***************************************************************************)
(* What a rendering shows.                                                 *)
(***************************************************************************)
TextReturned == tpc = "returned"
TextRaised == tpc = "raised"
AllStr(cells) == \A k \in 1..Len(cells) : cells[k].t = "str"

\* the column names and the values of the rows of a report, as the caller
\* reads them off the response
ColumnsOfReport(report) == ReportHeaders(Get(report, "columnHeader", EmptyDict))
ValuesOfReport(report) ==
    [k \in 1..Len(ReportRowsOf(report)) |-> ReportRowValues(ReportRowsOf(report)[k])]
ColumnsOfRealtime == HeaderEntryNames(api_response)
ValuesOfRealtime == [k \in 1..Len(RealtimeRows) |-> RealtimeRowValues(RealtimeRows[k])]

\* every name and value of the response is a str
Renderable ==
    IF renderer = "report"
    THEN \A i \in 1..Len(reports) :
             /\ AllStr(ColumnsOfReport(reports[i]))
             /\ \A k \in 1..Len(ValuesOfReport(reports[i])) : AllStr(ValuesOfReport(reports[i])[k])
    ELSE /\ AllStr(ColumnsOfRealtime)
         /\ \A k \in 1..Len(ValuesOfRealtime) : AllStr(ValuesOfRealtime[k])

\* the text of the lines, one after the other
TextOf(lines) == Concat(NewLine, [k \in 1..Len(lines) |-> PyStr(lines[k])])

RECURSIVE SplitLines(_)
\* the lines of a text
SplitLines(chars) ==
    IF \A i \in 1..Len(chars) : chars[i] # "\n" THEN <<chars>>
    ELSE <<SubSeq(chars, 1, (CHOOSE i \in 1..Len(chars) :
                                /\ chars[i] = "\n"
                                /\ \A j \in 1..(i - 1) : chars[j] # "\n") - 1)>>
         \o SplitLines(SubSeq(chars,
                              (CHOOSE i \in 1..Len(chars) :
                                  /\ chars[i] = "\n"
                                  /\ \A j \in 1..(i - 1) : chars[j] # "\n") + 1,
                              Len(chars)))

HeaderLine(columns) == HeadersPrefix \o Concat(Bar, columns)
LineOfRow(values) == Concat(Bar, values)

\* header line, rule, one line per row
TableAsStated(columns, width, rows_values) ==
    <<HeaderLine(columns), Repeat("-", width)>>
    \o [k \in 1..Len(rows_values) |-> LineOfRow(rows_values[k])]

HasValues(values) == values # << >>
\* header line and rule when there is a column, one line per row with values
TableOfRowsWithValues(columns, width, rows_values) ==
    (IF columns = << >> THEN << >> ELSE <<HeaderLine(columns), Repeat("-", width)>>)
    \o [k \in 1..Len(SelectSeq(rows_values, HasValues)) |->
           LineOfRow(SelectSeq(rows_values, HasValues)[k])]

\* an empty line and a rule between two reports
BetweenReports(i) == IF i > 1 THEN <<<< >>, Repeat("=", ReportSeparatorWidth)>> ELSE << >>
RealtimeTitleLines == <<RealtimeTitle, Repeat("=", RealtimeTitleRuleWidth)>>

HasRows(report) == ReportRowsOf(report) # << >>

\* the lines of the reports rendered so far that have rows, as a table per
\* report; a report without rows as the code renders it
ReportTextOf(Table(_, _, _)) ==
    TextOf(Flatten([i \in 1..Len(reports) |->
        BetweenReports(i)
        \o IF HasRows(reports[i])
           THEN Table(ColumnsOfReport(reports[i]), ReportRuleWidth, ValuesOfReport(reports[i]))
           ELSE TableOfRowsWithValues(ColumnsOfReport(reports[i]), ReportRuleWidth, << >>)
                \o <<NoDataRowsFound>>]))

RealtimeTextOf(Table(_, _, _)) ==
    TextOf(RealtimeTitleLines \o Table(ColumnsOfRealtime, RealtimeRuleWidth, ValuesOfRealtime))

\* a rendering of rows that came to its end
RenderedRows ==
    /\ TextReturned /\ Renderable
    /\ IF renderer = "report" THEN \E i \in 1..Len(reports) : HasRows(reports[i])
       ELSE RealtimeRows # << >>

\* C17 as stated: the rendering of a report with rows is a header line of the
\* column names, a rule, then exactly one line per response row in order.
C17_OneLinePerRow ==
    RenderedRows =>
        text.s = IF renderer = "report" THEN ReportTextOf(TableAsStated)
                 ELSE RealtimeTextOf(TableAsStated)

\* C17: the rendering of a report with rows is the line "Headers: " with the
\* " | "-joined column names (dimensions, then metrics) and a rule, both only
\* when there is a column, then one " | "-joined line for each response row
\* that has a value, in response row order; a row without values has no line.
C17_OneLinePerRowWithValues ==
    /\ RenderedRows =>
           text.s = IF renderer = "report" THEN ReportTextOf(TableOfRowsWithValues)
                    ELSE RealtimeTextOf(TableOfRowsWithValues)
    /\ TextRaised => ~Renderable

\* a returned rendering of two rows with different values under two columns
C17_Witness ==
    /\ renderer = "report" /\ TextReturned
    /\ Len(reports) = 1
    /\ ColumnsOfReport(reports[1]) = <<Cell(<<"d", "1">>), Cell(<<"m", "1">>)>>
    /\ ValuesOfReport(reports[1]) =
           <<<<Cell(<<"b">>), Cell(<<"5">>), Cell(<<"7">>)>>, <<Cell(<<"a">>), Cell(<<"1">>)>> >>
    /\ SplitLines(text.s) =
           <<HeadersPrefix \o <<"d", "1", " ", "|", " ", "m", "1">>,
             Repeat("-", ReportRuleWidth),
             <<"b", " ", "|", " ", "5", " ", "|", " ", "7">>,
             <<"a", " ", "|", " ", "1">> >>

SentinelLines(chars, sentinel) ==
    Cardinality({k \in 1..Len(SplitLines(chars)) : SplitLines(chars)[k] = sentinel})
EmptyReports == {i \in 1..Len(reports) : ~HasRows(reports[i])}

\* C18: a report whose row list is empty is rendered with the line "No data
\* rows found" ("No real-time data available" in the realtime report) where
\* its rows would be: the last line once the report is rendered, and one such
\* line in the returned text for every report without rows.
C18_NoRowsLine ==
    /\ renderer = "report" /\ tpc = "reports" /\ report_idx > 0
       /\ ~HasRows(reports[report_idx])
       => /\ result_lines # << >>
          /\ result_lines[Len(result_lines)] = NoDataRowsFound
    /\ renderer = "report" /\ TextReturned /\ reports # << >>
       => SentinelLines(text.s, NoDataRowsFound) = Cardinality(EmptyReports)
    /\ renderer = "realtime" /\ TextReturned /\ Renderable /\ RealtimeRows = << >>
       => SplitLines(text.s)[Len(SplitLines(text.s))] = NoRealtimeData

\* a returned rendering of two reports, the second without rows
C18_Witness ==
    /\ renderer = "report" /\ TextReturned
    /\ Len(reports) = 2
    /\ HasRows(reports[1]) /\ ~HasRows(reports[2])
    /\ SplitLines(text.s)[Len(SplitLines(text.s))] = NoDataRowsFound

(***************************************************************************)
(* The two pure functions side by side: a call of the filter builder or a  *)
(* call of the formatter, each on an argument of its own.                  *)
(***************************************************************************)
PureInit == Init \/ FormatInit

PureNext == Next \/ FormatNext

SpecPure == PureInit /\ [][PureNext]_vars

\* C19: no step of the filter builder changes the list it was given or a
\* condition dict in it, and no step of the formatter changes the response,
\* whether the call goes on to return or to raise.
C19_ArgumentsUnchanged == [][filters' = filters /\ response' = response]_vars

\* a call of the formatter that raised after it had formatted a row of a
\* response with metadata
C19_Witness ==
    /\ FormatRaised
    /\ "metadata" \in DOMAIN response
    /\ formatted.rows # << >>
    /\ formatted.metadata = response.metadata

(***************************************************************************)
(* parse_property_id.  The property id is a str, the sequence of its       *)
(* characters.                                                             *)
(***************************************************************************)
PropertiesPrefix == <<"p", "r", "o", "p", "e", "r", "t", "i", "e", "s", "/">>

RECURSIVE LeadingDigits(_)
\* the digits a string starts with
LeadingDigits(s) ==
    IF s = << >> \/ ~IsDigit(Head(s)) THEN << >>
    ELSE <<Head(s)>> \o LeadingDigits(Tail(s))

RECURSIVE Search(_)
\* re.search(r'\d+', s): the leftmost longest run of digits, None without one
Search(s) ==
    IF s = << >> THEN PyNone
    ELSE IF IsDigit(Head(s)) THEN PyStr(LeadingDigits(s))
    ELSE Search(Tail(s))

\* Mutant of Formatted: the whole input after the prefix.
Formatted_Whole(pid, match) == PropertiesPrefix \o pid

\* f"properties/{numeric_id}", numeric_id = match.group(): lines 38-40
Formatted(pid, match) == PropertiesPrefix \o match.s

\* lines 30-40
parse_property_id(pid, match) ==
    IF pid = << >> THEN Raise("ValueError", <<"Property ID cannot be empty">>)
    ELSE IF match = PyNone
    THEN Raise("ValueError", <<"Invalid property ID format", pid, "Must contain at least one number.">>)
    ELSE Return(PyStr(Formatted(pid, match)))

PropertyAlphabet == {"1", "2", "0", "/", "p"}
BareIds == UNION {[1..k -> PropertyAlphabet] : k \in 0..MaxStr}
\* ids as they are, and the same ids behind "properties/"
PropertyIds == BareIds \cup {PropertiesPrefix \o s : s \in BareIds}

PropertyInit ==
    /\ property_id \in PropertyIds
    /\ ppc = "start"
    /\ presult = PyNone
    /\ BuilderIdle /\ FormatterIdle /\ RendererIdle /\ ServiceIdle

PropertyFrame == UNCHANGED <<builder_vars, formatter_vars, renderer_vars, service_vars>>

\* the call ends with what parse_property_id gave
PropertyEnd(outcome) ==
    /\ ppc' = IF outcome.ok THEN "returned" ELSE "raised"
    /\ presult' = IF outcome.ok THEN outcome.val ELSE outcome.exc
    /\ UNCHANGED property_id
    /\ PropertyFrame

\* if not property_id: raise: lines 30-31
ParseEmpty ==
    /\ ppc = "start"
    /\ property_id = << >>
    /\ PropertyEnd(parse_property_id(property_id, Search(property_id)))

\* if not match: raise: lines 34-36
ParseNoMatch ==
    /\ ppc = "start"
    /\ property_id # << >>
    /\ Search(property_id) = PyNone
    /\ PropertyEnd(parse_property_id(property_id, Search(property_id)))

\* return: lines 38-40
ParseReturn ==
    /\ ppc = "start"
    /\ property_id # << >>
    /\ Search(property_id) # PyNone
    /\ PropertyEnd(parse_property_id(property_id, Search(property_id)))

PropertyNext == ParseEmpty \/ ParseNoMatch \/ ParseReturn

SpecProperty == PropertyInit /\ [][PropertyNext]_vars

(***************************************************************************)
(* What a call of parse_property_id shows.                                 *)
(***************************************************************************)
DigitPositions(s) == {i \in 1..Len(s) : IsDigit(s[i])}
HasDigit(s) == DigitPositions(s) # {}
FirstDigit(s) == CHOOSE i \in DigitPositions(s) : \A j \in DigitPositions(s) : i <= j
\* the last position of the run of digits that starts at FirstDigit(s)
EndOfRun(s) ==
    CHOOSE j \in FirstDigit(s)..Len(s) :
        /\ \A k \in FirstDigit(s)..j : IsDigit(s[k])
        /\ j = Len(s) \/ ~IsDigit(s[j + 1])
\* the numeric id of an input: its first run of digits
NumericId(s) == SubSeq(s, FirstDigit(s), EndOfRun(s))
IsBareId(s) == s # << >> /\ \A i \in 1..Len(s) : IsDigit(s[i])
IsPrefixedId(s) ==
    /\ Len(s) > Len(PropertiesPrefix)
    /\ SubSeq(s, 1, Len(PropertiesPrefix)) = PropertiesPrefix
    /\ IsBareId(SubSeq(s, Len(PropertiesPrefix) + 1, Len(s)))

\* C20: a call with an input that contains a digit returns "properties/" and
\* the input's first run of digits: a bare id comes back prefixed and a
\* prefixed id comes back as it is; a call with an empty input or an input
\* without a digit raises ValueError.
C20_ParsePropertyId ==
    /\ ppc = "returned" =>
           /\ HasDigit(property_id)
           /\ presult = PyStr(PropertiesPrefix \o NumericId(property_id))
           /\ IsBareId(property_id) => presult = PyStr(PropertiesPrefix \o property_id)
           /\ IsPrefixedId(property_id) => presult = PyStr(property_id)
    /\ ppc = "raised" =>
           /\ ~HasDigit(property_id)
           /\ presult.kind = "ValueError"

\* a prefixed id of two digits that came back as it was
C20_Witness ==
    /\ ppc = "returned"
    /\ property_id = PropertiesPrefix \o <<"1", "2">>
    /\ presult = PyStr(property_id)

(***************************************************************************)
(* list_ga4_properties of ga4_tools.py: lines 305-387.  The two decorators *)
(* hand the function its service; the body is modelled.  A property is a   *)
(* dict whose values are str; the Admin API answers each list request with *)
(* a dict, with or without its "properties", or the request raises.        *)
(***************************************************************************)
PropertiesRuleWidth == 40
PropertySeparatorWidth == 30

Unknown == 
    <<"U", "n", "k", "n", "o", "w", "n">>
NoPropertiesFound == 
    <<"N", "o", " ", "G", "A", "4", " ", "p", "r", "o", "p", "e", "r", "t", "i", "e",
      "s", " ", "f", "o", "u", "n", "d", ".">>
PropertiesTitle == 
    <<"G", "A", "4", " ", "P", "r", "o", "p", "e", "r", "t", "i", "e", "s", " ", "f",
      "o", "r", " ">>
PropertiesError == 
    <<"E", "r", "r", "o", "r", " ", "r", "e", "t", "r", "i", "e", "v", "i", "n", "g",
      " ", "G", "A", "4", " ", "p", "r", "o", "p", "e", "r", "t", "i", "e", "s", ":",
      " ">>
FilterIdRequired == 
    <<"E", "r", "r", "o", "r", ":", " ", "f", "i", "l", "t", "e", "r", "_", "i", "d",
      " ", "i", "s", " ", "r", "e", "q", "u", "i", "r", "e", "d", " ", "(", "a", "c",
      "c", "o", "u", "n", "t", "_", "i", "d", " ", "o", "r", " ", "p", "r", "o", "p",
      "e", "r", "t", "y", "_", "i", "d", ")">>
PropertyLabel == 
    <<"P", "r", "o", "p", "e", "r", "t", "y">>
SubPropertyLabel == 
    <<"S", "u", "b", "-", "P", "r", "o", "p", "e", "r", "t", "y">>
IdLabel == 
    <<" ", "I", "D", ":", " ">>
DisplayNameLabel == 
    <<"D", "i", "s", "p", "l", "a", "y", " ", "N", "a", "m", "e", ":", " ">>
PropertyTypeLabel == 
    <<"P", "r", "o", "p", "e", "r", "t", "y", " ", "T", "y", "p", "e", ":", " ">>
CurrencyLabel == 
    <<"C", "u", "r", "r", "e", "n", "c", "y", ":", " ">>
TimeZoneLabel == 
    <<"T", "i", "m", "e", " ", "Z", "o", "n", "e", ":", " ">>
ParentLabel == 
    <<"P", "a", "r", "e", "n", "t", ":", " ">>
ServiceLevelLabel == 
    <<"S", "e", "r", "v", "i", "c", "e", " ", "L", "e", "v", "e", "l", ":", " ">>

\* s.startswith(prefix)
StartsWith(s, prefix) ==
    Len(s) >= Len(prefix) /\ SubSeq(s, 1, Len(prefix)) = prefix

\* s.replace(old, ""), old not empty: every occurrence, left to right
RECURSIVE Remove(_, _)
Remove(s, old) ==
    IF s = << >> THEN << >>
    ELSE IF StartsWith(s, old) THEN Remove(SubSeq(s, Len(old) + 1, Len(s)), old)
    ELSE <<Head(s)>> \o Remove(Tail(s), old)

\* bool(v) of None, a str, a bool or a list
Truth(v) ==
    CASE v.t = "NoneType" -> FALSE
      [] v.t = "str" -> v.s # << >>
      [] v.t = "bool" -> v.b
      [] v.t = "list" -> v.xs # << >>

\* the lines of one property: lines 360-381
PropertyLines(prop) ==
    <<(IF StartsWith(Get(prop, "parent", Unknown), PropertiesPrefix)
       THEN SubPropertyLabel ELSE PropertyLabel)
      \o IdLabel \o Remove(Get(prop, "name", Unknown), PropertiesPrefix),
      DisplayNameLabel \o Get(prop, "displayName", Unknown),
      PropertyTypeLabel \o Get(prop, "propertyType", Unknown),
      CurrencyLabel \o Get(prop, "currencyCode", Unknown),
      TimeZoneLabel \o Get(prop, "timeZone", Unknown),
      ParentLabel \o Get(prop, "parent", Unknown),
      ServiceLevelLabel \o Get(prop, "serviceLevel", Unknown),
      Repeat("-", PropertySeparatorWidth)>>

\* lines 351-383: the text returned for the properties found
PropertiesText(user_google_email, properties) ==
    IF properties = << >> THEN PyStr(NoPropertiesFound)
    ELSE JoinLines(<<PropertiesTitle \o user_google_email \o <<":">>,
                     Repeat("=", PropertiesRuleWidth)>>
                   \o Flatten([k \in 1..Len(properties) |-> PropertyLines(properties[k])]))

\* lines 318-319 and 341-343: all_properties.extend(answer['properties'])
Extend(properties, answer) ==
    IF answer # EmptyDict /\ "properties" \in DOMAIN answer
    THEN properties \o answer["properties"]
    ELSE properties

(***************************************************************************)
(* The calls and the answers of the Admin API.                             *)
(***************************************************************************)
MaxProperties == 2

UserGoogleEmail == <<"u", "@", "g">>
Account1 == <<"a", "c", "c", "o", "u", "n", "t", "s", "/", "1">>
Property1 == PropertiesPrefix \o <<"1">>
Property2 == PropertiesPrefix \o <<"2">>
PropertyPool ==
    { [name |-> Property1, parent |-> Account1, displayName |-> <<"A">>],
      [name |-> Property2, parent |-> Property1],
      [displayName |-> <<"B">>],
      [name |-> PropertiesPrefix] }
ListAnswers ==
    {Return(EmptyDict), Return([nextPageToken |-> <<"t">>]),
     Raise("HttpError", <<<<"4", "0", "3">>>>)}
    \cup {Return([properties |-> ps]) : ps \in SeqsUpTo(PropertyPool, MaxProperties)}
SubAnswers ==
    {Return(EmptyDict), Raise("HttpError", <<<<"4", "0", "3">>>>),
     Return([properties |-> <<[name |-> Property2, parent |-> Property1]>>])}
FilterIds == {PyNone, PyStr(<< >>), PyStr(<<"1">>)}

ListInit ==
    /\ filter_id \in FilterIds
    /\ include_sub_properties \in BOOLEAN
    /\ all_properties = << >>
    /\ props_copy = << >>
    /\ sub_idx = 0
    /\ lpc = "start"
    /\ lresult = PyNone
    /\ PureIdle /\ AuthIdle /\ RunReportIdle /\ Ga4ReportIdle

ListerFrame ==
    UNCHANGED <<pure_vars, auth_vars, run_report_vars, ga4_report_vars, filter_id,
                include_sub_properties>>

\* lines 326-330 after the account's properties are known: the loop over the
\* copy of the list, or the rendering
AfterAccount(properties) ==
    /\ all_properties' = properties
    /\ IF include_sub_properties /\ properties # << >>
       THEN props_copy' = properties /\ sub_idx' = 1 /\ lpc' = "sub"
       ELSE props_copy' = << >> /\ sub_idx' = 0 /\ lpc' = "render"
    /\ lresult' = lresult

\* lines 305-330: the properties of the account, when filter_id is given
ListAccount ==
    /\ lpc = "start"
    /\ IF Truth(filter_id)
       THEN \E answer \in ListAnswers :
                IF answer.ok THEN AfterAccount(Extend(<< >>, answer.val))
                ELSE /\ lresult' = PyStr(PropertiesError \o answer.exc.args[1])
                     /\ lpc' = "done"
                     /\ UNCHANGED <<all_properties, props_copy, sub_idx>>
       ELSE AfterAccount(<< >>)
    /\ ListerFrame

\* lines 330-349: the sub-properties of one property of the copy
ListSubProperties ==
    /\ lpc = "sub"
    /\ IF Remove(Get(props_copy[sub_idx], "name", << >>), PropertiesPrefix) # << >>
       THEN \E answer \in SubAnswers :
                all_properties' = IF answer.ok THEN Extend(all_properties, answer.val)
                                  ELSE all_properties
       ELSE all_properties' = all_properties
    /\ IF sub_idx < Len(props_copy)
       THEN sub_idx' = sub_idx + 1 /\ lpc' = "sub"
       ELSE sub_idx' = sub_idx /\ lpc' = "render"
    /\ UNCHANGED <<props_copy, lresult>>
    /\ ListerFrame

\* lines 351-383
ListReturn ==
    /\ lpc = "render"
    /\ lresult' = PropertiesText(UserGoogleEmail, all_properties)
    /\ lpc' = "done"
    /\ UNCHANGED <<all_properties, props_copy, sub_idx>>
    /\ ListerFrame

ListNext == ListAccount \/ ListSubProperties \/ ListReturn

SpecList == ListInit /\ [][ListNext]_vars

(***************************************************************************)
(* What is observed of a call of list_ga4_properties.                      *)
(***************************************************************************)
ListReturned == lpc = "done"
ErrorWord == 
    <<"E", "r", "r", "o", "r">>
\* the text reports an error
IsErrorResult(v) == v.t = "str" /\ StartsWith(v.s, ErrorWord)

\* C21: list_ga4_properties returns an error result when filter_id is not
\* provided (None or empty), not an empty or successful listing.  The code
\* returns "No GA4 properties found.": the branch that returns the error
\* (lines 320-323) is the else of a second `if filter_id:` nested in the first.
C21_ErrorWithoutFilterId ==
    (ListReturned /\ ~Truth(filter_id)) => IsErrorResult(lresult)

(***************************************************************************)
(* The token store of mcp_ga4.  auth.py keeps the credentials of a client  *)
(* in the file token_<client_id>.json.  The tools and resources run in the *)
(* MCP thread (server.py:372-437) and read the file of GOOGLE_CLIENT_ID    *)
(* through is_authenticated and ga4_client.  The handlers of the main      *)
(* thread are coroutines without an await, so the event loop runs one to   *)
(* its end before the next: GET /oauth2callback writes the file of the     *)
(* client of its header X-Client-ID, or of GOOGLE_CLIENT_ID without one,   *)
(* and GET / reads the file of GOOGLE_CLIENT_ID through is_authenticated,  *)
(* which refreshes and saves it; a handler that waits for an answer of     *)
(* Google keeps the event loop.  No lock guards the files: a step of the   *)
(* model is one access to a file or one request to Google, and the steps   *)
(* of the two threads interleave.                                          *)
(*                                                                         *)
(* Credentials.to_json writes the fields that are not None, and the expiry *)
(* when there is one; Credentials.from_authorized_user_file fails on a     *)
(* file that is no JSON or has no refresh_token, and takes credentials     *)
(* saved without expiry as expired.                                        *)
(***************************************************************************)
StatusOk == 200
StatusError == 500

AnalyticsReadonly == "https://www.googleapis.com/auth/analytics.readonly"
Openid == "openid"

\* Mutant of validate_scopes_for_ga4: any scopes are sufficient.
validate_scopes_for_ga4_Any(granted_scopes) == TRUE

\* validate_scopes_for_ga4: auth.py:179-198
validate_scopes_for_ga4(granted_scopes) ==
    \E i \in 1..Len(granted_scopes) : granted_scopes[i] = AnalyticsReadonly

Past == [t |-> "datetime", at |-> "past"]
Future == [t |-> "datetime", at |-> "future"]
Credentials(token, refresh_token, scopes, expiry, expired) ==
    [token |-> token, refresh_token |-> refresh_token, scopes |-> scopes,
     expiry |-> expiry, expired |-> expired]
\* credentials.valid
Valid(c) == c.token # PyNone /\ ~c.expired

\* the file after open(token_file, 'w'), and after f.write(text)
EmptyFile == [t |-> "text", json |-> FALSE]
JsonFile(d) == [t |-> "text", json |-> TRUE, d |-> d]
\* the file after f.write(text) through a handle opened with 'w': the text, or,
\* when another handle wrote since the file was opened, the text or a mix of
\* the two texts that is no JSON
Written(file, written) == IF file = EmptyFile THEN {written} ELSE {written, EmptyFile}
CredentialKeys == {"token", "refresh_token", "scopes", "expiry"}
\* credentials.to_json()
ToJson(c) == JsonFile([k \in {k \in CredentialKeys : c[k] # PyNone} |-> c[k]])

\* Credentials.from_authorized_user_file(token_file), read at a time when an
\* expiry still ahead at the time of writing has passed or not
FromAuthorizedUserFile(file, passed) ==
    IF ~file.json THEN Raise("JSONDecodeError", <<"Expecting value">>)
    ELSE IF "refresh_token" \notin DOMAIN file.d
    THEN Raise("ValueError", <<"Authorized user info was not in the expected format">>)
    ELSE Return(Credentials(Get(file.d, "token", PyNone), file.d["refresh_token"],
                            Get(file.d, "scopes", PyNone),
                            IF "expiry" \in DOMAIN file.d /\ ~passed
                            THEN file.d["expiry"] ELSE Past,
                            ~("expiry" \in DOMAIN file.d /\ file.d["expiry"] = Future
                              /\ ~passed)))

\* auth.py:222: if creds.scopes and not validate_scopes_for_ga4(creds.scopes)
InsufficientScopes(c) == Truth(c.scopes) /\ ~validate_scopes_for_ga4(c.scopes.xs)
\* auth.py:227: if creds and creds.expired and creds.refresh_token
NeedsRefresh(c) == c.expired /\ Truth(c.refresh_token)

StoredToken == PyStr(<<"t", "0">>)
StoredRefreshToken == PyStr(<<"r", "0">>)
RefreshedToken == PyStr(<<"t", "1">>)
GrantedToken == PyStr(<<"t", "2">>)
GrantedRefreshToken == PyStr(<<"r", "2">>)

\* creds.refresh(Request()) that succeeds
Refreshed(c) == [c EXCEPT !.token = RefreshedToken, !.expiry = Future, !.expired = FALSE]

\* is_authenticated: auth.py:327
is_authenticated(credentials) == credentials # PyNone /\ Valid(credentials)

(***************************************************************************)
(* The tools and resources: tools.py and resources.py.                     *)
(***************************************************************************)
NotAuthenticated == "User not authenticated. Please visit /authorize to authenticate first."
ClientIdNotSet ==
    "GOOGLE_CLIENT_ID environment variable must be set for OAuth authentication"
\* the value of GOOGLE_CLIENT_ID when it is set, and another client id
ClientId == "cid"
OtherClientId == "other"
\* auth.py:285, the pieces of the text
NoValidCredentials(client_id) ==
    <<"No valid credentials found for client ", client_id, ". Please authorize first.">>

Tools ==
    {"tools.list_ga4_properties", "tools.get_metadata", "tools.run_report",
     "tools.batch_run_reports", "tools.run_pivot_report",
     "tools.batch_run_pivot_reports", "tools.check_compatibility"}
Resources ==
    {"resources.list_ga4_properties", "resources.get_ga4_property_details",
     "resources.get_ga4_metadata"}
Callables == Tools \cup Resources

\* the text before str(e) in the ValueError of the except clause
ErrorPrefix(name) ==
    CASE name \in {"tools.list_ga4_properties", "resources.list_ga4_properties"}
             -> "Error listing GA4 properties: "
      [] name \in {"tools.get_metadata", "resources.get_ga4_metadata"}
             -> "Error getting metadata: "
      [] name = "tools.run_report" -> "Error running report: "
      [] name = "tools.batch_run_reports" -> "Error running batch reports: "
      [] name = "tools.run_pivot_report" -> "Error running pivot report: "
      [] name = "tools.batch_run_pivot_reports" -> "Error running batch pivot reports: "
      [] name = "tools.check_compatibility" -> "Error checking compatibility: "
      [] name = "resources.get_ga4_property_details"
             -> "Error getting property details: "

\* except Exception as e: raise ValueError(f"Error ...: {str(e)}")
Wrapped(name, exc) == Raise("ValueError", <<ErrorPrefix(name)>> \o exc.args)

TakesPropertyId(name) ==
    name \notin {"tools.list_ga4_properties", "resources.list_ga4_properties"}

\* Mutant of RaisesNotAuthenticated: the call goes on whatever the answer.
RaisesNotAuthenticated_Never(authenticated) == FALSE

\* if not is_authenticated(client_id): raise ValueError(...)
RaisesNotAuthenticated(authenticated) == ~authenticated

MaxRequests == 1

\* list_ga4_properties sends list_accounts, then list_properties for each
\* account of the answer: tools.py:55-64, resources.py:38-47
ListsProperties(name) ==
    name \in {"tools.list_ga4_properties", "resources.list_ga4_properties"}
MaxAccounts == 2
\* the accounts that list_accounts answers, an account being its number
AccountLists == {[i \in 1..n |-> i] : n \in 0..MaxAccounts}

\* accounts: None until list_accounts answered, then the accounts whose
\* properties are still to be listed
Frame(name, property_id_, requests) ==
    [name |-> name, pc |-> "auth", authenticated |-> PyNone, effects |-> << >>,
     property_id |-> property_id_, requests |-> requests, accounts |-> PyNone]
Top == stack[Len(stack)]
SetTop(frame) == [stack EXCEPT ![Len(stack)] = frame]
\* what is seen of a call that ended
Ended(frame, outcome) ==
    [name |-> frame.name, authenticated |-> frame.authenticated,
     effects |-> frame.effects, outcome |-> outcome]

\* the running call ends with outcome; run_pivot_report called by
\* batch_run_pivot_reports hands its result to the loop of tools.py:338-347, its
\* exception to the except clause of tools.py:355-356
Finish(frame, outcome) ==
    IF Len(stack) = 1
    THEN /\ stack' = << >>
         /\ returned' = Append(returned, Ended(frame, outcome))
    ELSE IF outcome.ok
    THEN /\ stack' = <<[stack[1] EXCEPT !.requests = @ - 1]>>
         /\ returned' = Append(returned, Ended(frame, outcome))
    ELSE /\ stack' = << >>
         /\ returned' = returned \o <<Ended(frame, outcome),
                                      Ended(stack[1], Wrapped(stack[1].name, outcome.exc))>>

\* get_stored_credentials returns credentials, to is_authenticated
\* (auth.py:326-327 and the check of the tool) or to get_ga4_service
\* (auth.py:277-286)
GetStoredReturns(credentials) ==
    /\ gsc' = "idle"
    /\ creds' = PyNone
    /\ IF Top.pc = "auth"
       THEN IF RaisesNotAuthenticated(is_authenticated(credentials))
            THEN Finish([Top EXCEPT !.authenticated = PyBool(is_authenticated(credentials))],
                        Raise("ValueError", <<NotAuthenticated>>))
            ELSE /\ stack' = SetTop([Top EXCEPT
                                        !.authenticated = PyBool(is_authenticated(credentials)),
                                        !.pc = "try"])
                 /\ returned' = returned
       ELSE IF credentials = PyNone
            THEN Finish(Top, Wrapped(Top.name,
                                     Raise("ValueError", NoValidCredentials(ClientId)).exc))
            ELSE /\ stack' = SetTop([Top EXCEPT
                                        !.effects = Append(@, "client"),
                                        !.pc = IF Top.name = "tools.batch_run_pivot_reports"
                                               THEN "loop" ELSE "request"])
                 /\ returned' = returned

(***************************************************************************)
(* The environment and the token file at the start.                        *)
(***************************************************************************)
ScopeLists ==
    {<< >>, <<Openid>>, <<AnalyticsReadonly>>, <<Openid, AnalyticsReadonly>>}
\* credentials saved earlier: every scope list with an expiry ahead, every
\* expiry with the scope of GA4, and a file without refresh token
StoredCredentials ==
    {Credentials(StoredToken, StoredRefreshToken, sc, Future, FALSE) :
        sc \in {PyNone} \cup {PyList(xs) : xs \in ScopeLists}}
    \cup {Credentials(StoredToken, StoredRefreshToken, PyList(<<AnalyticsReadonly>>), ex,
                      FALSE) : ex \in {PyNone, Past}}
    \cup {Credentials(StoredToken, StoredRefreshToken, PyNone, Past, FALSE),
          Credentials(StoredToken, PyNone, PyList(<<AnalyticsReadonly>>), Future, FALSE)}
TokenFiles == {PyNone, EmptyFile} \cup {ToJson(c) : c \in StoredCredentials}
Environments ==
    {[client_id |-> TRUE, client_secret |-> TRUE],
     [client_id |-> FALSE, client_secret |-> TRUE],
     [client_id |-> TRUE, client_secret |-> FALSE]}
ToolPropertyIds == {<< >>, <<"1">>, <<"p">>}

\* the answers of https://oauth2.googleapis.com/token to the code
TokenJson(keys, scope) ==
    [k \in keys |-> CASE k = "scope" -> scope
                      [] k = "access_token" -> GrantedToken
                      [] k = "refresh_token" -> GrantedRefreshToken]
TokenAnswers ==
    {[status_code |-> 400, json |-> EmptyDict]}
    \cup {[status_code |-> StatusOk, json |-> TokenJson(ks, <<AnalyticsReadonly>>)] :
             ks \in SUBSET {"scope", "access_token", "refresh_token"}}
    \cup {[status_code |-> StatusOk,
           json |-> TokenJson({"scope", "access_token", "refresh_token"}, sc)] :
             sc \in {<< >>, <<Openid>>, <<Openid, " ", AnalyticsReadonly>>}}

AuthInit ==
    /\ env \in Environments
    /\ token_file \in TokenFiles
    /\ file_log = << >>
    /\ stack = << >> /\ gsc = "idle" /\ creds = PyNone /\ returned = << >>
    /\ other_file = PyNone
    /\ cpc = "start" /\ callback_client_id = "" /\ token_info = PyNone /\ page = PyNone
    /\ root_pc = "start" /\ root_creds = PyNone /\ root_result = PyNone
    /\ PureIdle /\ ListerIdle /\ RunReportIdle /\ Ga4ReportIdle

AuthFrame == UNCHANGED <<pure_vars, lister_vars, run_report_vars, ga4_report_vars, env>>
McpFrame == AuthFrame /\ UNCHANGED <<callback_vars, root_vars, other_file>>
CallbackFrame == AuthFrame /\ UNCHANGED <<mcp_vars, root_vars>>
RootFrame == AuthFrame /\ UNCHANGED <<mcp_vars, callback_vars, other_file>>

(***************************************************************************)
(* The MCP thread.                                                         *)
(***************************************************************************)
\* a tool or resource is called: get_client_id_from_env (tools.py:25-35), then
\* is_authenticated begins
ToolCall ==
    /\ stack = << >> /\ returned = << >>
    /\ \E name \in Callables, pid \in ToolPropertyIds, n \in 0..MaxRequests :
           /\ IF TakesPropertyId(name) THEN pid # << >> ELSE pid = << >>
           /\ name = "tools.batch_run_pivot_reports" \/ n = 0
           /\ IF env.client_id
              THEN /\ stack' = <<Frame(name, pid, n)>>
                   /\ gsc' = "exists"
                   /\ returned' = returned
              ELSE /\ stack' = << >>
                   /\ gsc' = gsc
                   /\ returned' = Append(returned,
                                         Ended(Frame(name, pid, n),
                                               Raise("ValueError", <<ClientIdNotSet>>)))
    /\ UNCHANGED <<creds, token_file, file_log>>
    /\ McpFrame

\* get_stored_credentials, auth.py:214-215
StoredExists ==
    /\ gsc = "exists"
    /\ IF token_file = PyNone THEN GetStoredReturns(PyNone)
       ELSE gsc' = "load" /\ UNCHANGED <<stack, creds, returned>>
    /\ UNCHANGED <<token_file, file_log>>
    /\ McpFrame

\* auth.py:219-227, 231-234: the file is read, the scopes are checked
StoredLoad ==
    /\ gsc = "load"
    /\ file_log' = Append(file_log, [by |-> "mcp", op |-> "read"])
    /\ \E passed \in BOOLEAN :
           LET loaded == FromAuthorizedUserFile(token_file, passed) IN
           IF ~loaded.ok THEN GetStoredReturns(PyNone)
           ELSE IF InsufficientScopes(loaded.val) THEN GetStoredReturns(PyNone)
           ELSE IF NeedsRefresh(loaded.val)
           THEN gsc' = "refresh" /\ creds' = loaded.val /\ UNCHANGED <<stack, returned>>
           ELSE GetStoredReturns(loaded.val)
    /\ UNCHANGED token_file
    /\ McpFrame

\* auth.py:228: creds.refresh(Request()), which succeeds or raises
StoredRefresh ==
    /\ gsc = "refresh"
    /\ \/ gsc' = "open" /\ creds' = Refreshed(creds) /\ UNCHANGED <<stack, returned>>
       \/ GetStoredReturns(PyNone)
    /\ UNCHANGED <<token_file, file_log>>
    /\ McpFrame

\* save_credentials called by get_stored_credentials, auth.py:249
StoredSaveOpen ==
    /\ gsc = "open"
    /\ token_file' = EmptyFile
    /\ file_log' = Append(file_log, [by |-> "mcp", op |-> "open"])
    /\ gsc' = "write"
    /\ UNCHANGED <<stack, creds, returned>>
    /\ McpFrame

\* auth.py:250, then auth.py:231
StoredSaveWrite ==
    /\ gsc = "write"
    /\ token_file' \in Written(token_file, ToJson(creds))
    /\ file_log' = Append(file_log, [by |-> "mcp", op |-> "write"])
    /\ GetStoredReturns(creds)
    /\ McpFrame

\* the try block up to ga4_client: parse_property_id, then get_ga4_service begins
ToolTry ==
    /\ stack # << >> /\ Top.pc = "try" /\ gsc = "idle"
    /\ LET parsed == parse_property_id(Top.property_id, Search(Top.property_id)) IN
       IF TakesPropertyId(Top.name) /\ ~parsed.ok
       THEN Finish(Top, Wrapped(Top.name, parsed.exc)) /\ gsc' = gsc
       ELSE /\ stack' = SetTop([Top EXCEPT !.pc = "client"])
            /\ gsc' = "exists"
            /\ returned' = returned
    /\ UNCHANGED <<creds, token_file, file_log>>
    /\ McpFrame

\* the call goes on to its next request
NextRequest(frame) ==
    /\ stack' = SetTop(frame)
    /\ returned' = returned
\* the request is refused: the except clause of the tool
Refused(frame) ==
    Finish(frame, Wrapped(frame.name, Raise("GoogleAPICallError", <<"403">>).exc))
Answered(frame) == Finish(frame, Return(PyDict(EmptyDict)))
\* list_ga4_properties after list_accounts answered accounts (tools.py:55-58),
\* and after list_properties answered for the first account left
\* (tools.py:64-82): the loop sends the next request, or the call returns
AccountsListed(frame, accounts) ==
    IF Len(accounts) = 0 THEN Answered(frame)
    ELSE NextRequest([frame EXCEPT !.accounts = PyList(accounts)])
PropertiesListed(frame) == AccountsListed(frame, Tail(frame.accounts.xs))

\* one request sent with the client, answered or refused: the request of the
\* tool, or the next request of list_ga4_properties
ToolRequest ==
    /\ stack # << >> /\ Top.pc = "request" /\ gsc = "idle"
    /\ LET sent == [Top EXCEPT !.effects = Append(@, "request")] IN
       \/ Refused(sent)
       \/ /\ ~ListsProperties(Top.name)
          /\ Answered(sent)
       \/ /\ ListsProperties(Top.name) /\ Top.accounts = PyNone
          /\ \E accounts \in AccountLists : AccountsListed(sent, accounts)
       \/ /\ ListsProperties(Top.name) /\ Top.accounts # PyNone
          /\ PropertiesListed(sent)
    /\ UNCHANGED <<gsc, creds, token_file, file_log>>
    /\ McpFrame

\* tools.py:338-353: batch_run_pivot_reports calls run_pivot_report for the next
\* request, or returns the results
ToolLoop ==
    /\ stack # << >> /\ Top.pc = "loop" /\ gsc = "idle"
    /\ IF Top.requests = 0
       THEN Finish(Top, Return(PyDict(EmptyDict))) /\ gsc' = gsc
       ELSE /\ stack' = Append(stack, Frame("tools.run_pivot_report", Top.property_id, 0))
            /\ gsc' = "exists"
            /\ returned' = returned
    /\ UNCHANGED <<creds, token_file, file_log>>
    /\ McpFrame

(***************************************************************************)
(* The OAuth callback: server.py:71-126, 260-355.                          *)
(***************************************************************************)
ErrorPage == [status_code |-> StatusError, page |-> "error"]
SuccessPage == [status_code |-> StatusOk, page |-> "success"]

\* granted_scopes_str.split(), the scopes of the model having no blank inside
Split(scope) == SelectSeq(scope, LAMBDA word : word # " ")
\* server.py:105-106
GrantedScopes(info) ==
    IF Get(info, "scope", << >>) # << >> THEN Split(info["scope"]) ELSE << >>
\* server.py:109
SufficientScopes(info) == validate_scopes_for_ga4(GrantedScopes(info))
\* server.py:115-122
CallbackCredentials(info) ==
    Credentials(info["access_token"], Get(info, "refresh_token", PyNone),
                PyList(GrantedScopes(info)), PyNone, FALSE)

\* the requests the main thread serves in a behaviour
MaxHandlerRequests == 1
HandlerRequests ==
    (IF cpc = "start" THEN 0 ELSE 1) + (IF root_pc = "start" THEN 0 ELSE 1)
\* the event loop of the main thread runs no other handler, and takes one more
\* request
NoHandlerRuns ==
    /\ cpc \in {"start", "done"} /\ root_pc \in {"start", "done"}
    /\ HandlerRequests < MaxHandlerRequests

\* get_client_id_from_request, auth.py:64-84: the header X-Client-ID when the
\* request has one that is not empty, GOOGLE_CLIENT_ID otherwise
Headers == {"", ClientId, OtherClientId}
ClientIdOfRequest(header) ==
    IF header # "" THEN Return(header)
    ELSE IF env.client_id THEN Return(ClientId)
    ELSE Raise("ValueError",
               <<"No client ID found in request headers or environment variables">>)

\* server.py:75-86: the client id of the request or of the environment, and
\* the client secret
CallbackStart ==
    /\ cpc = "start" /\ NoHandlerRuns
    /\ \E header \in Headers :
           IF ClientIdOfRequest(header).ok /\ env.client_secret
           THEN /\ cpc' = "exchange" /\ page' = page
                /\ callback_client_id' = ClientIdOfRequest(header).val
           ELSE /\ cpc' = "done" /\ page' = ErrorPage
                /\ callback_client_id' = callback_client_id
    /\ UNCHANGED <<token_info, token_file, other_file, file_log>>
    /\ CallbackFrame

\* server.py:98-122: the code is exchanged, the granted scopes are validated
CallbackExchange ==
    /\ cpc = "exchange"
    /\ \E answer \in TokenAnswers :
           /\ token_info' = answer
           /\ IF /\ answer.status_code = StatusOk
                 /\ SufficientScopes(answer.json)
                 /\ "access_token" \in DOMAIN answer.json
              THEN cpc' = "open" /\ page' = page
              ELSE cpc' = "done" /\ page' = ErrorPage
    /\ UNCHANGED <<callback_client_id, token_file, other_file, file_log>>
    /\ CallbackFrame

\* save_credentials called by the callback, auth.py:246-249: the file of the
\* client of the request is opened
CallbackSaveOpen ==
    /\ cpc = "open"
    /\ IF callback_client_id = ClientId
       THEN token_file' = EmptyFile /\ other_file' = other_file
       ELSE other_file' = EmptyFile /\ token_file' = token_file
    /\ file_log' = Append(file_log, [by |-> "callback", op |-> "open"])
    /\ cpc' = "write"
    /\ UNCHANGED <<callback_client_id, token_info, page>>
    /\ CallbackFrame

\* auth.py:250, then server.py:260
CallbackSaveWrite ==
    /\ cpc = "write"
    /\ IF callback_client_id = ClientId
       THEN /\ token_file' \in Written(token_file,
                                       ToJson(CallbackCredentials(token_info.json)))
            /\ other_file' = other_file
       ELSE /\ other_file' \in Written(other_file,
                                       ToJson(CallbackCredentials(token_info.json)))
            /\ token_file' = token_file
    /\ file_log' = Append(file_log, [by |-> "callback", op |-> "write"])
    /\ cpc' = "done"
    /\ page' = SuccessPage
    /\ UNCHANGED <<callback_client_id, token_info>>
    /\ CallbackFrame

(***************************************************************************)
(* GET /: server.py:37-51.  root checks is_authenticated(GOOGLE_CLIENT_ID) *)
(* and so runs get_stored_credentials in the main thread.                  *)
(***************************************************************************)
RootStatus(status) == [status |-> status]

\* get_stored_credentials returns credentials to is_authenticated
\* (auth.py:326-327), root returns the status (server.py:46-49)
RootReturns(credentials) ==
    /\ root_pc' = "done"
    /\ root_creds' = PyNone
    /\ root_result' = RootStatus(IF is_authenticated(credentials) THEN "authenticated"
                                 ELSE "not_authenticated")

\* what get_stored_credentials does with the credentials it loaded,
\* auth.py:222-227: None for insufficient scopes, the refresh for an expired
\* token with a refresh token
RootLoaded(loaded) ==
    IF ~loaded.ok THEN RootReturns(PyNone)
    ELSE IF InsufficientScopes(loaded.val) THEN RootReturns(PyNone)
    ELSE IF NeedsRefresh(loaded.val)
    THEN root_pc' = "refresh" /\ root_creds' = loaded.val /\ UNCHANGED root_result
    ELSE RootReturns(loaded.val)

\* server.py:40-46 and auth.py:214-215: GOOGLE_CLIENT_ID is read,
\* is_authenticated begins, the file exists or not (no step of the MCP thread
\* creates or removes it)
RootCall ==
    /\ root_pc = "start" /\ NoHandlerRuns
    /\ IF ~env.client_id
       THEN root_pc' = "done" /\ root_result' = RootStatus("error") /\ UNCHANGED root_creds
       ELSE IF token_file = PyNone THEN RootReturns(PyNone)
       ELSE root_pc' = "load" /\ UNCHANGED <<root_creds, root_result>>
    /\ UNCHANGED <<token_file, file_log>>
    /\ RootFrame

\* auth.py:219-227, 231-234: the file is read, the scopes are checked
RootLoad ==
    /\ root_pc = "load"
    /\ file_log' = Append(file_log, [by |-> "root", op |-> "read"])
    /\ \E passed \in BOOLEAN : RootLoaded(FromAuthorizedUserFile(token_file, passed))
    /\ UNCHANGED token_file
    /\ RootFrame

\* auth.py:228: creds.refresh(Request()), which succeeds or raises; the main
\* thread waits for the answer and serves no other request, the MCP thread runs
RootRefresh ==
    /\ root_pc = "refresh"
    /\ \/ root_pc' = "open" /\ root_creds' = Refreshed(root_creds) /\ UNCHANGED root_result
       \/ RootReturns(PyNone)
    /\ UNCHANGED <<token_file, file_log>>
    /\ RootFrame

\* save_credentials called by get_stored_credentials, auth.py:249
RootSaveOpen ==
    /\ root_pc = "open"
    /\ token_file' = EmptyFile
    /\ file_log' = Append(file_log, [by |-> "root", op |-> "open"])
    /\ root_pc' = "write"
    /\ UNCHANGED <<root_creds, root_result>>
    /\ RootFrame

\* auth.py:250, then auth.py:231
RootSaveWrite ==
    /\ root_pc = "write"
    /\ token_file' \in Written(token_file, ToJson(root_creds))
    /\ file_log' = Append(file_log, [by |-> "root", op |-> "write"])
    /\ RootReturns(root_creds)
    /\ RootFrame

McpNext ==
    \/ ToolCall \/ StoredExists \/ StoredLoad \/ StoredRefresh
    \/ StoredSaveOpen \/ StoredSaveWrite \/ ToolTry \/ ToolRequest \/ ToolLoop
CallbackNext ==
    CallbackStart \/ CallbackExchange \/ CallbackSaveOpen \/ CallbackSaveWrite
RootNext == RootCall \/ RootLoad \/ RootRefresh \/ RootSaveOpen \/ RootSaveWrite
AuthNext == McpNext \/ CallbackNext \/ RootNext

SpecAuth == AuthInit /\ [][AuthNext]_vars

(***************************************************************************)
(* What is observed of the token store, of the calls and of the callback.  *)
(***************************************************************************)
HasAnalyticsScope(scopes) == AnalyticsReadonly \in {scopes[i] : i \in 1..Len(scopes)}
\* the file holds credentials whose scope list contains analytics.readonly
FileHasScope(file) ==
    /\ file # PyNone /\ file.json
    /\ "scopes" \in DOMAIN file.d
    /\ HasAnalyticsScope(file.d["scopes"].xs)
Positions(by, op) == {i \in 1..Len(file_log) : file_log[i] = [by |-> by, op |-> op]}
Max(S) == CHOOSE n \in S : \A m \in S : m <= n
CallbackWrote == Positions("callback", "open") \cup Positions("callback", "write") # {}
CallbackEnded == cpc = "done"
\* the token endpoint answered 200 with the scope of GA4 among the granted ones
ExchangeValidated ==
    /\ token_info # PyNone
    /\ token_info.status_code = StatusOk
    /\ HasAnalyticsScope(GrantedScopes(token_info.json))
\* a step in which get_stored_credentials hands credentials that its caller goes
\* on with: is_authenticated answers true, or get_ga4_service makes the client
CredentialsAccepted ==
    /\ gsc \in {"load", "write"} /\ gsc' = "idle"
    /\ Len(stack') = Len(stack)
\* the file those credentials were read from, or written to after the refresh
AcceptedFile == IF gsc = "load" THEN token_file ELSE token_file'
\* the same step in GET /: is_authenticated answers true
RootAccepted ==
    /\ root_pc \in {"load", "write"} /\ root_pc' = "done"
    /\ root_result' = RootStatus("authenticated")
RootAcceptedFile == IF root_pc = "load" THEN token_file ELSE token_file'
\* the last save of a refresh by a thread came before the callback's, or the
\* refresh had read the file after the callback wrote it
RefreshKeeps(by) ==
    \/ Positions(by, "write") = {}
    \/ Max(Positions(by, "write")) < Max(Positions("callback", "write"))
    \/ Max({r \in Positions(by, "read") : r < Max(Positions(by, "write"))})
           > Max(Positions("callback", "write"))

\* C22: in every tool and resource of mcp_ga4, a GA4 client is created and a
\* request is issued only after is_authenticated answered true in the same
\* call; when it answers false the call ends at once with the ValueError
\* "User not authenticated..." and has created no client and sent no request.
C22_AuthenticatedBeforeClient ==
    /\ \A i \in 1..Len(stack) :
           /\ stack[i].authenticated # PyBool(FALSE)
           /\ stack[i].pc # "auth" => stack[i].authenticated = PyBool(TRUE)
           /\ stack[i].effects # << >> => stack[i].authenticated = PyBool(TRUE)
    /\ \A i \in 1..Len(returned) :
           /\ returned[i].effects # << >> => returned[i].authenticated = PyBool(TRUE)
           /\ returned[i].authenticated = PyBool(FALSE) =>
                  /\ returned[i].outcome = Raise("ValueError", <<NotAuthenticated>>)
                  /\ returned[i].effects = << >>
\* batch_run_pivot_reports made its client, then its run_pivot_report was
\* refused: the token file changed between the two checks
C22_Witness ==
    \E i, j \in 1..Len(returned) :
        /\ returned[i].authenticated = PyBool(FALSE)
        /\ returned[i].name = "tools.run_pivot_report"
        /\ returned[j].effects = <<"client">>

\* C23: the callback writes the token file only after the exchange answered 200
\* and the granted scopes were validated; when it fails (no client id or
\* secret, an answer other than 200, insufficient scopes, no access token) it
\* has not touched the file and returns the error page, status 500; otherwise
\* it has saved the credentials and returns the success page.
C23_SavedOnlyAfterValidation ==
    /\ CallbackWrote => (env.client_secret /\ ExchangeValidated)
    /\ CallbackEnded =>
           IF /\ env.client_secret /\ ExchangeValidated
              /\ "access_token" \in DOMAIN token_info.json
           THEN page = SuccessPage /\ Positions("callback", "write") # {}
           ELSE page = ErrorPage /\ ~CallbackWrote
\* the exchange succeeded without the scope of GA4 while a token was stored
C23_Witness ==
    /\ CallbackEnded /\ page = ErrorPage
    /\ token_info # PyNone /\ token_info.status_code = StatusOk
    /\ ~HasAnalyticsScope(GrantedScopes(token_info.json))
    /\ token_file # PyNone /\ token_file.json

\* C24: get_stored_credentials hands credentials to its caller (is_authenticated
\* then answers true, get_ga4_service then makes the client) only when the
\* scope list of the stored token contains analytics.readonly.  The code
\* validates the scopes only when the list is not empty (auth.py:222): a token
\* stored with no scopes, or with an empty list, is accepted.
C24_ScopeRequired ==
    [][/\ CredentialsAccepted => FileHasScope(AcceptedFile)
       /\ RootAccepted => FileHasScope(RootAcceptedFile)]_vars

\* C30: the refresh path of get_stored_credentials never overwrites credentials
\* saved after it loaded the file: once the callback has saved in the file of
\* GOOGLE_CLIENT_ID and no save of a refresh is under way, the last write of
\* the file is the callback's, or that of a refresh that read the file after
\* the callback wrote it.  Nothing orders the MCP thread and the main thread:
\* a refresh that loaded the old token can write after the callback.
C30_CallbackCredentialsKept ==
    (/\ CallbackEnded /\ page = SuccessPage /\ callback_client_id = ClientId
     /\ gsc # "write" /\ root_pc # "write")
        => RefreshKeeps("mcp") /\ RefreshKeeps("root")

(***************************************************************************)
(* run_report of mcp_ga: tools.py:57-122, with validate_date               *)
(* (utils.py:34-48) and format_error_message (utils.py:119-136).  The      *)
(* whole body is a try block whose except clause returns the error as      *)
(* JSON.  json.dumps(value, indent=2) is the str that holds value.         *)
(***************************************************************************)
JsonDumps(value) == [t |-> "str", json |-> value]

\* the days of a month of the proleptic Gregorian calendar
IsLeap(year) == year % 4 = 0 /\ (year % 100 # 0 \/ year % 400 = 0)
DaysInMonth(year, month) ==
    IF month = 2 THEN (IF IsLeap(year) THEN 29 ELSE 28)
    ELSE IF month \in {4, 6, 9, 11} THEN 30 ELSE 31

\* %m: 1[0-2]|0[1-9]|[1-9]
IsMonthText(m) ==
    \/ Len(m) = 1 /\ IsDigit(m[1]) /\ m[1] # "0"
    \/ Len(m) = 2 /\ m[1] = "0" /\ IsDigit(m[2]) /\ m[2] # "0"
    \/ Len(m) = 2 /\ m[1] = "1" /\ m[2] \in {"0", "1", "2"}
\* %d: 3[01]|[12]\d|0[1-9]|[1-9]| [1-9], with nothing after it
IsDayText(d) ==
    \/ Len(d) = 2 /\ d[1] = "3" /\ d[2] \in {"0", "1"}
    \/ Len(d) = 2 /\ d[1] \in {"1", "2"} /\ IsDigit(d[2])
    \/ Len(d) = 2 /\ d[1] \in {"0", " "} /\ IsDigit(d[2]) /\ d[2] # "0"
    \/ Len(d) = 1 /\ IsDigit(d[1]) /\ d[1] # "0"
\* the day of the text, the blank of " 5" left out
DayValue(d) == DigitsValue(IF d[1] = " " THEN Tail(d) ELSE d)
\* the place of the dash that ends the month, 0 when there is none
MonthEnd(s) ==
    IF Len(s) >= 7 /\ s[7] = "-" THEN 7
    ELSE IF Len(s) >= 8 /\ s[8] = "-" THEN 8
    ELSE 0

\* datetime.strptime(date_string, "%Y-%m-%d"): the text is four digits, a
\* month and a day with dashes between, and names a day of the calendar
Strptime(date_string) ==
    IF date_string.t # "str"
    THEN Raise("TypeError", <<"strptime() argument 1 must be str, not None">>)
    ELSE LET s == date_string.s
             e == MonthEnd(s) IN
         IF /\ Len(s) >= 5 /\ AllDigits(SubSeq(s, 1, 4)) /\ s[5] = "-"
            /\ e # 0
            /\ IsMonthText(SubSeq(s, 6, e - 1))
            /\ IsDayText(SubSeq(s, e + 1, Len(s)))
            /\ DigitsValue(SubSeq(s, 1, 4)) >= 1
            /\ DayValue(SubSeq(s, e + 1, Len(s)))
                   <= DaysInMonth(DigitsValue(SubSeq(s, 1, 4)),
                                  DigitsValue(SubSeq(s, 6, e - 1)))
         THEN Return([year |-> DigitsValue(SubSeq(s, 1, 4)),
                      month |-> DigitsValue(SubSeq(s, 6, e - 1)),
                      day |-> DayValue(SubSeq(s, e + 1, Len(s)))])
         ELSE Raise("ValueError", <<"time data does not match format '%Y-%m-%d'">>)

\* Mutant of validate_date: any str is a date.
validate_date_Any(date_string) ==
    IF date_string.t # "str" THEN Strptime(date_string) ELSE Return(PyBool(TRUE))

\* validate_date: utils.py:34-48; a TypeError is not caught
validate_date(date_string) ==
    IF Strptime(date_string).ok THEN Return(PyBool(TRUE))
    ELSE IF Strptime(date_string).exc.kind = "ValueError" THEN Return(PyBool(FALSE))
    ELSE Strptime(date_string)

\* tools.py:59-60
ValidateDates(start, end) ==
    IF ~validate_date(start).ok THEN validate_date(start)
    ELSE IF ~validate_date(start).val.b
    THEN Raise("ValueError", <<"Dates must be in YYYY-MM-DD format">>)
    ELSE IF ~validate_date(end).ok THEN validate_date(end)
    ELSE IF ~validate_date(end).val.b
    THEN Raise("ValueError", <<"Dates must be in YYYY-MM-DD format">>)
    ELSE Return(PyNone)

\* format_error_message: utils.py:119-136; an HttpError carries its status
format_error_message(exc) ==
    IF "status" \in DOMAIN exc THEN <<"API Error ", exc.status, ": ">> \o exc.args
    ELSE exc.args

\* except Exception as e: tools.py:116-122
Handled(outcome) ==
    IF outcome.ok THEN outcome
    ELSE Return(JsonDumps([error |-> format_error_message(outcome.exc)]))

\* formatted["rows"] of format_report_response: utils.py:78-100
RECURSIVE FormatRows(_, _, _)
FormatRows(rows, dims, mets) ==
    IF rows = << >> THEN Return(<< >>)
    ELSE IF ~FormatRowOf(Head(rows), dims, mets).ok THEN FormatRowOf(Head(rows), dims, mets)
    ELSE IF ~FormatRows(Tail(rows), dims, mets).ok THEN FormatRows(Tail(rows), dims, mets)
    ELSE Return(<<FormatRowOf(Head(rows), dims, mets).val>>
                \o FormatRows(Tail(rows), dims, mets).val)

\* format_report_response: utils.py:51-116
format_report_response(resp) ==
    IF ~FormatRows(Get(resp, "rows", << >>), HeaderNames(resp, "dimensionHeaders"),
                   HeaderNames(resp, "metricHeaders")).ok
    THEN FormatRows(Get(resp, "rows", << >>), HeaderNames(resp, "dimensionHeaders"),
                    HeaderNames(resp, "metricHeaders"))
    ELSE IF "totals" \notin DOMAIN resp
    THEN Return([InitialFormatted(resp) EXCEPT
                    !.rows = FormatRows(Get(resp, "rows", << >>),
                                        HeaderNames(resp, "dimensionHeaders"),
                                        HeaderNames(resp, "metricHeaders")).val])
    ELSE IF ~TotalsOf(resp.totals, HeaderNames(resp, "metricHeaders")).ok
    THEN TotalsOf(resp.totals, HeaderNames(resp, "metricHeaders"))
    ELSE Return(SetItem([InitialFormatted(resp) EXCEPT
                            !.rows = FormatRows(Get(resp, "rows", << >>),
                                                HeaderNames(resp, "dimensionHeaders"),
                                                HeaderNames(resp, "metricHeaders")).val],
                        "totals",
                        TotalsOf(resp.totals, HeaderNames(resp, "metricHeaders")).val))

\* tools.py:107-114
ReportJson(pid, start, end, resp) ==
    IF ~format_report_response(resp).ok THEN format_report_response(resp)
    ELSE Return(JsonDumps([property_id |-> pid,
                           date_range |-> start.s \o <<" ", "t", "o", " ">> \o end.s,
                           data |-> format_report_response(resp).val]))

(***************************************************************************)
(* The dates, the tokens and the answers of the Data API.                  *)
(***************************************************************************)
Dates ==
    {PyNone}
    \cup {PyStr(s) : s \in
            {<<"2", "0", "2", "4", "-", "0", "1", "-", "0", "5">>,
             <<"2", "0", "2", "4", "-", "1", "-", "5">>,
             <<"2", "0", "2", "4", "-", "1", "2", "-", " ", "5">>,
             <<"2", "0", "2", "4", "-", "0", "2", "-", "2", "9">>,
             <<"2", "0", "2", "3", "-", "0", "2", "-", "2", "9">>,
             <<"1", "9", "0", "0", "-", "0", "2", "-", "2", "9">>,
             <<"2", "0", "2", "4", "-", "0", "4", "-", "3", "1">>,
             <<"2", "0", "2", "4", "-", "1", "3", "-", "0", "1">>,
             <<"2", "0", "2", "4", "-", "0", "1", "-", "0", "5", " ">>,
             <<"2", "0", "2", "4", "-", "0", "1", "-", "3", "2">>,
             <<"0", "0", "0", "0", "-", "0", "1", "-", "0", "1">>,
             <<"2", "4", "-", "0", "1", "-", "0", "5">>,
             <<"2", "0", "2", "4", "/", "0", "1", "/", "0", "5">>,
             <<"7", "d", "a", "y", "s", "A", "g", "o">>,
             <<"t", "o", "d", "a", "y">>,
             << >>}}
\* get_access_token(): an AccessToken, None, or no request is being served
AccessTokens ==
    {Return([t |-> "AccessToken", token |-> <<"t">>]),
     Return([t |-> "AccessToken", token |-> << >>]),
     Return(PyNone),
     Raise("RuntimeError", <<"No active HTTP request found.">>)}
ReportPropertyId == <<"1">>
ReportAnswers ==
    {Return(r) : r \in CoercionResponses}
    \cup {Return(EmptyDict), Return([totals |-> << >>]),
          [ok |-> FALSE,
           exc |-> [kind |-> "HttpError", args |-> <<"denied">>, status |-> "403"]]}

RunReportInit ==
    /\ start_date \in Dates
    /\ end_date \in Dates
    /\ access_token = PyNone
    /\ run_response = PyNone
    /\ calls = << >>
    /\ rpc = "start"
    /\ rresult = PyNone
    /\ PureIdle /\ ListerIdle /\ AuthIdle /\ Ga4ReportIdle

RunReportFrame ==
    UNCHANGED <<pure_vars, lister_vars, auth_vars, ga4_report_vars, start_date, end_date>>

\* the call goes on to next_pc, or ends with what the except clause returns
RunReportStep(outcome, next_pc) ==
    IF outcome.ok
    THEN rpc' = next_pc /\ rresult' = rresult
    ELSE rpc' = "done" /\ rresult' = Handled(outcome)

\* tools.py:57-64
RunReportValidate ==
    /\ rpc = "start"
    /\ RunReportStep(ValidateDates(start_date, end_date), "token")
    /\ UNCHANGED <<access_token, run_response, calls>>
    /\ RunReportFrame

\* tools.py:66-74: access_token is token.token, or str(token)
RunReportToken ==
    /\ rpc = "token"
    /\ calls' = Append(calls, "get_access_token")
    /\ \E token \in AccessTokens :
           /\ RunReportStep(token, "service")
           /\ access_token' =
                  IF ~token.ok THEN access_token
                  ELSE IF token.val = PyNone THEN PyStr(<<"N", "o", "n", "e">>)
                  ELSE PyStr(token.val.token)
    /\ UNCHANGED run_response
    /\ RunReportFrame

\* tools.py:76 and auth.py:50-58: get_analytics_service
RunReportService ==
    /\ rpc = "service"
    /\ IF ~Truth(access_token)
       THEN /\ RunReportStep(Raise("ValueError",
                                   <<"Access token is required for Google Analytics analyticsdata API">>),
                             "request")
            /\ calls' = calls
       ELSE /\ calls' = Append(calls, "build")
            /\ \E built \in {Return(PyNone), Raise("HttpError", <<"discovery failed">>)} :
                   RunReportStep(built, "request")
    /\ UNCHANGED <<access_token, run_response>>
    /\ RunReportFrame

\* tools.py:79-104: the request is executed
RunReportExecute ==
    /\ rpc = "request"
    /\ calls' = Append(calls, "runReport")
    /\ \E answer \in ReportAnswers :
           /\ RunReportStep(answer, "format")
           /\ run_response' = IF answer.ok THEN answer.val ELSE run_response
    /\ UNCHANGED access_token
    /\ RunReportFrame

\* tools.py:107-114
RunReportReturn ==
    /\ rpc = "format"
    /\ rpc' = "done"
    /\ rresult' = Handled(ReportJson(ReportPropertyId, start_date, end_date,
                                    run_response))
    /\ UNCHANGED <<access_token, run_response, calls>>
    /\ RunReportFrame

RunReportNext ==
    \/ RunReportValidate \/ RunReportToken \/ RunReportService
    \/ RunReportExecute \/ RunReportReturn

SpecRunReport == RunReportInit /\ [][RunReportNext]_vars

(***************************************************************************)
(* What is observed of a call of run_report.                               *)
(***************************************************************************)
RunReportEnded == rpc = "done"
\* the text of a date in the form YYYY-MM-DD that names a day
IsDate(d) == d.t = "str" /\ Strptime(d).ok
IsErrorJson(v) == v.t = "str" /\ DOMAIN v.json = {"error"}

\* C25: run_report of mcp_ga never raises and always returns a JSON string;
\* when start_date or end_date is no date for validate_date, the result is
\* {"error": ...} and no access token was obtained, no service built and no
\* request executed.
C25_ErrorJsonForBadDates ==
    RunReportEnded =>
        /\ rresult.ok /\ rresult.val.t = "str" /\ "json" \in DOMAIN rresult.val
        /\ (~IsDate(start_date) \/ ~IsDate(end_date)) =>
               IsErrorJson(rresult.val) /\ calls = << >>
\* a call with an end date that names no day of the calendar
C25_Witness ==
    /\ RunReportEnded /\ IsDate(start_date)
    /\ end_date.t = "str" /\ ~IsDate(end_date)
    /\ IsErrorJson(rresult.val) /\ calls = << >>

(***************************************************************************)
(* run_ga4_report of ga4_tools.py: lines 435-555, with                     *)
(* _build_filter_expression (54-129), _build_and_group_filter (132-154)    *)
(* and _build_not_filter (157-169).  A filter is a dict; its field_name,   *)
(* type, match_type and operation are plain strings, its other values are  *)
(* Python values.  The text returned is the sequence of its pieces.        *)
(***************************************************************************)
\* lines 94-98, 109-119: int64Value for an int, doubleValue of float(value)
\* otherwise
NumericOf(value, parsed) ==
    IF value.t \in {"int", "bool"} THEN Return([int64Value |-> Str(value)])
    ELSE IF parsed.ok THEN Return([doubleValue |-> parsed.val])
    ELSE parsed
NumericValue(value) == NumericOf(value, Float(value))

\* lines 91-104
Ga4NumericFilter(filter_config, numeric_value) ==
    IF ~numeric_value.ok THEN numeric_value
    ELSE Return([numericFilter |->
                    [operation |-> Get(filter_config, "operation", "EQUAL"),
                     value |-> numeric_value.val]])

\* lines 105-123: from_value is converted before to_value
Ga4BetweenFilter(from_value, to_value) ==
    IF ~from_value.ok THEN from_value
    ELSE IF ~to_value.ok THEN to_value
    ELSE Return([betweenFilter |-> [fromValue |-> from_value.val, toValue |-> to_value.val]])

\* the filter of one type: lines 70-127
TypedFilter(filter_type, filter_config) ==
    CASE filter_type = "string" ->
             Return([stringFilter |->
                        [matchType |-> Get(filter_config, "match_type", "EXACT"),
                         value |-> Get(filter_config, "value", PyStr(<< >>)),
                         caseSensitive |-> Get(filter_config, "case_sensitive", PyBool(TRUE))]])
      [] filter_type = "in_list" ->
             Return([inListFilter |->
                        [values |-> Get(filter_config, "values", PyList(<< >>)),
                         caseSensitive |-> Get(filter_config, "case_sensitive", PyBool(TRUE))]])
      [] filter_type = "numeric" ->
             Ga4NumericFilter(filter_config,
                              NumericValue(Get(filter_config, "value", PyInt(0))))
      [] filter_type = "between" ->
             Ga4BetweenFilter(NumericValue(Get(filter_config, "from_value", PyInt(0))),
                              NumericValue(Get(filter_config, "to_value", PyInt(0))))
      [] filter_type = "empty" -> Return([emptyFilter |-> EmptyDict])
      [] OTHER -> Return(EmptyDict)

\* lines 66-68, 129: the typed filter beside the field name
LeafFrom(filter_config, typed) ==
    IF ~typed.ok THEN typed
    ELSE Return([filter |->
                    Merge([fieldName |-> Get(filter_config, "field_name", "")], typed.val)])

\* _build_filter_expression: lines 54-129
_build_filter_expression(filter_config) ==
    LeafFrom(filter_config, TypedFilter(Get(filter_config, "type", "string"), filter_config))

\* [_build_filter_expression(f) for f in filters]: the first exception ends it
RECURSIVE BuildEach(_)
BuildEach(filter_list) ==
    IF filter_list = << >> THEN Return(<< >>)
    ELSE Cons(_build_filter_expression(Head(filter_list)), BuildEach(Tail(filter_list)))

AndGroupExpression(exprs) == [andGroup |-> [expressions |-> exprs]]
NotExpression(expr) == [notExpression |-> expr]
AndGroupOf(built) == IF built.ok THEN Return(AndGroupExpression(built.val)) ELSE built
NotOf(built) == IF built.ok THEN Return(NotExpression(built.val)) ELSE built

\* _build_and_group_filter: lines 132-154
_build_and_group_filter(filter_list) ==
    IF filter_list = << >> THEN Return(EmptyDict)
    ELSE IF Len(filter_list) = 1 THEN _build_filter_expression(filter_list[1])
    ELSE AndGroupOf(BuildEach(filter_list))

\* _build_not_filter: lines 157-169
_build_not_filter(filter_config) == NotOf(_build_filter_expression(filter_config))

\* lines 471, 511: {"not": True, **not_filter}
Negated(not_filter) == Merge(not_filter, [not |-> PyBool(TRUE)])
\* lines 475-476, 515-516: f.get("not", False)
IsNot(f) == Truth(Get(f, "not", PyBool(FALSE)))
\* lines 462-471, 502-511
AllFilters(filter_list, not_filters) ==
    filter_list \o [i \in 1..Len(not_filters) |-> Negated(not_filters[i])]
RegularFilters(all_filters) == SelectSeq(all_filters, LAMBDA f : ~IsNot(f))
NotFilters(all_filters) == SelectSeq(all_filters, LAMBDA f : IsNot(f))
\* line 487, 527
WithoutNot(f) == Restrict(f, DOMAIN f \ {"not"})

\* lines 485-488, 525-528
RECURSIVE BuildNots(_)
BuildNots(not_filters) ==
    IF not_filters = << >> THEN Return(<< >>)
    ELSE Cons(_build_not_filter(WithoutNot(Head(not_filters))), BuildNots(Tail(not_filters)))

\* lines 478-488, 518-528: filter_expressions
FilterExpressions(regular_filters, not_filters) ==
    IF regular_filters = << >> THEN BuildNots(not_filters)
    ELSE Cons(_build_and_group_filter(regular_filters), BuildNots(not_filters))

\* lines 490-498, 530-538
Combined(filter_expressions) ==
    IF Len(filter_expressions) = 1 THEN filter_expressions[1]
    ELSE AndGroupExpression(filter_expressions)
\* a filter that raises leaves the request without the key
SetFilter(request, key, filter_expressions) ==
    IF ~filter_expressions.ok THEN Partial(request, filter_expressions)
    ELSE Return(SetItem(request, key, Combined(filter_expressions.val)))
\* lines 473-498, 513-538
FilterOfAll(request, key, all_filters) ==
    SetFilter(request, key,
              FilterExpressions(RegularFilters(all_filters), NotFilters(all_filters)))

\* lines 460-498 and 500-538: the request with its filter under key, when
\* one of the two lists has a filter
WithFilter(request, key, filter_list, not_filters) ==
    IF filter_list = << >> /\ not_filters = << >> THEN Return(request)
    ELSE FilterOfAll(request, key, AllFilters(filter_list, not_filters))

ReportLimit == 1000
SevenDaysAgo == <<"7", "d", "a", "y", "s", "A", "g", "o">>
Today == <<"t", "o", "d", "a", "y">>
\* lines 436-458: the request without filters, with the defaults of the
\* signature
BaseRequest(pid, metrics, dimensions) ==
    [property |-> IF StartsWith(pid, PropertiesPrefix) THEN pid ELSE PropertiesPrefix \o pid,
     dateRanges |-> <<[startDate |-> SevenDaysAgo, endDate |-> Today]>>,
     metrics |-> [i \in 1..Len(metrics) |-> [name |-> metrics[i]]],
     dimensions |-> [i \in 1..Len(dimensions) |-> [name |-> dimensions[i]]],
     limit |-> ReportLimit]

\* lines 500-538, after the filter of the dimensions; not reached when that
\* one raised
WithMetricFilter(request, mf, nmf) ==
    IF ~request.ok THEN request ELSE WithFilter(request.val, "metricFilter", mf, nmf)

\* lines 436-538: request_body["requests"][0], as the statements before the
\* exception left it when a filter raised
BuildRequest(pid, metrics, dimensions, df, ndf, mf, nmf) ==
    WithMetricFilter(WithFilter(BaseRequest(pid, metrics, dimensions), "dimensionFilter",
                                df, ndf),
                     mf, nmf)

\* _format_report_results: lines 172-228
RECURSIVE LinesOfReports(_, _)
LinesOfReports(rs, i) ==
    IF i = Len(rs) THEN Return(<< >>)
    ELSE Then(ReportLines(rs[i + 1], i), LinesOfReports(rs, i + 1))
JoinedLines(lines) ==
    IF lines.ok THEN Return(JoinLines(lines.val)) ELSE Raise(lines.exc.kind, lines.exc.args)
_format_report_results(resp) ==
    IF resp = EmptyDict THEN Return(PyStr(NoDataReturned))
    ELSE IF Get(resp, "reports", << >>) = << >> THEN Return(PyStr(NoReportsFound))
    ELSE JoinedLines(LinesOfReports(resp.reports, 0))

\* lines 549-555: the text returned
Ga4ReportText(outcome) ==
    IF outcome.ok THEN PyStr(<<"GA4 Report Results:\n">> \o outcome.val.s)
    ELSE PyStr(<<"Error running GA4 report: ">> \o outcome.exc.args)

(***************************************************************************)
(* The filters of a call and the answers of the Data API.                  *)
(***************************************************************************)
MaxFilters == 2

CountryIsUS == [field_name |-> "country", type |-> "string", value |-> PyStr(<<"U", "S">>)]
SessionsOverOne ==
    [field_name |-> "sessions", type |-> "numeric", operation |-> "GREATER_THAN",
     value |-> PyInt(1)]
NoCampaign == [field_name |-> "campaignName", type |-> "empty"]
\* float("a") raises
SessionsNotANumber == [field_name |-> "sessions", type |-> "numeric", value |-> PyStr(<<"a">>)]
FilterPool ==
    {CountryIsUS, NoCampaign,
     [field_name |-> "sessions", type |-> "between", from_value |-> PyInt(1),
      to_value |-> PyStr(<<"2">>)],
     Merge([not |-> PyBool(TRUE)], CountryIsUS),
     Merge([not |-> PyBool(FALSE)], NoCampaign),
     SessionsNotANumber}
MetricFilterPool ==
    {SessionsOverOne, Merge([not |-> PyBool(TRUE)], SessionsOverOne), EmptyDict,
     [field_name |-> "sessions", type |-> "in_list"], [type |-> "regex"]}
\* the filters of the dimensions without those of the metrics, and the reverse
FilterArguments ==
    {<<df, ndf, << >>, << >>>> : df \in SeqsUpTo(FilterPool, MaxFilters),
                                 ndf \in SeqsUpTo(FilterPool, MaxFilters)}
    \cup {<<<< >>, << >>, mf, nmf>> : mf \in SeqsUpTo(MetricFilterPool, MaxFilters),
                                      nmf \in SeqsUpTo(MetricFilterPool, MaxFilters)}
    \cup {<<<<CountryIsUS>>, <<NoCampaign>>, <<SessionsOverOne>>, <<SessionsOverOne>>>>,
          <<<<CountryIsUS>>, << >>, <<SessionsOverOne, SessionsNotANumber>>, << >>>>}
Ga4PropertyId == <<"1">>
Ga4Metrics == <<<<"s">>>>
Ga4Dimensions == <<<<"c">>>>
BatchAnswers ==
    {Return(EmptyDict), Return([reports |-> << >>]),
     Raise("HttpError", <<"403">>)}
    \cup {Return([reports |-> <<r>>]) : r \in ReportPool}

Ga4ReportInit ==
    /\ \E arguments \in FilterArguments :
           /\ dimension_filters = arguments[1]
           /\ not_dimension_filters = arguments[2]
           /\ metric_filters = arguments[3]
           /\ not_metric_filters = arguments[4]
    /\ request_body = PyNone
    /\ gpc = "start"
    /\ gresult = PyNone
    /\ PureIdle /\ ListerIdle /\ AuthIdle /\ RunReportIdle

Ga4ReportFrame ==
    UNCHANGED <<pure_vars, lister_vars, auth_vars, run_report_vars, dimension_filters,
                not_dimension_filters, metric_filters, not_metric_filters>>

\* request_body as built (line 447, then the filters), and the exception of a
\* filter turned into the text returned
Ga4Built(built) ==
    /\ request_body' = [requests |-> <<built.val>>]
    /\ IF built.ok THEN gpc' = "run" /\ gresult' = gresult
       ELSE gpc' = "done" /\ gresult' = Ga4ReportText(built)

\* lines 435-538
Ga4BuildRequest ==
    /\ gpc = "start"
    /\ Ga4Built(BuildRequest(Ga4PropertyId, Ga4Metrics, Ga4Dimensions, dimension_filters,
                             not_dimension_filters, metric_filters, not_metric_filters))
    /\ Ga4ReportFrame

\* lines 540-555: batchRunReports, then the text of the answer
Ga4RunReport ==
    /\ gpc = "run"
    /\ \E answer \in BatchAnswers :
           gresult' = Ga4ReportText(IF answer.ok THEN _format_report_results(answer.val)
                                    ELSE answer)
    /\ gpc' = "done"
    /\ UNCHANGED request_body
    /\ Ga4ReportFrame

Ga4ReportNext == Ga4BuildRequest \/ Ga4RunReport

SpecGa4Report == Ga4ReportInit /\ [][Ga4ReportNext]_vars

(***************************************************************************)
(* What is observed of the request of run_ga4_report.                      *)
(***************************************************************************)
\* the request is complete and about to be sent; a call that a filter ended
\* sends none
RequestBuilt == gpc = "run"
\* the leaf of a filter, whatever it says of "not"
LeafOf(f) == _build_filter_expression(WithoutNot(f)).val
\* the expression the lists stand for: the filters of the first list as they
\* are, one leaf or one AND group, then those of the second list negated
ExpressionOfLists(filter_list, not_filters) ==
    Combined((IF filter_list = << >> THEN << >>
              ELSE IF Len(filter_list) = 1 THEN <<LeafOf(filter_list[1])>>
              ELSE <<AndGroupExpression([i \in 1..Len(filter_list) |->
                                            LeafOf(filter_list[i])])>>)
             \o [i \in 1..Len(not_filters) |-> NotExpression(LeafOf(not_filters[i]))])
FilterIsOfLists(key, filter_list, not_filters) ==
    IF filter_list = << >> /\ not_filters = << >>
    THEN key \notin DOMAIN request_body.requests[1]
    ELSE /\ key \in DOMAIN request_body.requests[1]
         /\ request_body.requests[1][key] = ExpressionOfLists(filter_list, not_filters)

\* C26: in the request of run_ga4_report every filter of dimension_filters
\* (metric_filters) is an un-negated leaf and every filter of
\* not_dimension_filters (not_metric_filters) a leaf under notExpression,
\* whatever keys the dicts carry; the regular ones come first as one AND
\* group, the negated ones follow in order, under andGroup unless there is one
\* expression.  The code sorts the filters by their own "not" key: a filter
\* of dimension_filters with "not": True is negated, a filter of
\* not_dimension_filters with "not": False is not.
C26_FiltersByList ==
    RequestBuilt =>
        /\ FilterIsOfLists("dimensionFilter", dimension_filters, not_dimension_filters)
        /\ FilterIsOfLists("metricFilter", metric_filters, not_metric_filters)

====
